---------------------------- MODULE Spec2Model ----------------------------
(*************************************************************************)
(* A model of the shared library of hyzhak/speech-to-text: the mock      *)
(* speech-to-text model (shared/src/mock_stt_model.py on top of          *)
(* shared/src/interfaces/stt_model.py) and the mock audio format handler *)
(* (shared/src/mock_audio_format_handler.py on top of                    *)
(* shared/src/interfaces/audio_format.py).                               *)
(*                                                                       *)
(* Conventions.  A Python str the code inspects (a path, a format, a     *)
(* response key) is a sequence of one-character strings, so that         *)
(* str.lower, the `in` substring test, str.split and os.path.splitext    *)
(* are computed and not assumed.  A text that is only stored and         *)
(* returned is a TLA+ string.  Times are in milliseconds, probabilities  *)
(* and confidences in percent (0.85 is 85).  A Python dict is the        *)
(* sequence of its <<key, value>> items in insertion order.  An `await   *)
(* asyncio.sleep` is a suspension point: the call is parked in a         *)
(* sequence of pending calls and a separate step resumes it.             *)
(*************************************************************************)
EXTENDS Integers, Sequences, FiniteSets, TLC

-----------------------------------------------------------------------------
(* Strings                                                               *)

UpperChars == <<"A", "B", "C", "D", "E", "F", "G", "H", "I", "J", "K", "L", "M",
                "N", "O", "P", "Q", "R", "S", "T", "U", "V", "W", "X", "Y", "Z">>

LowerChars == <<"a", "b", "c", "d", "e", "f", "g", "h", "i", "j", "k", "l", "m",
                "n", "o", "p", "q", "r", "s", "t", "u", "v", "w", "x", "y", "z">>

\* str.lower() on one character
LowerChar(c) ==
    IF \E i \in DOMAIN UpperChars : UpperChars[i] = c
    THEN LowerChars[CHOOSE i \in DOMAIN UpperChars : UpperChars[i] = c]
    ELSE c

\* str.lower()
Lower(s) == [i \in 1..Len(s) |-> LowerChar(s[i])]

\* Python's `sub in s` on strings
Contains(s, sub) ==
    \E i \in 0..(Len(s) - Len(sub)) : SubSeq(s, i + 1, i + Len(sub)) = sub

\* str.startswith
StartsWith(s, pre) == Len(pre) <= Len(s) /\ SubSeq(s, 1, Len(pre)) = pre

\* the index of the last occurrence of character c in s, 0 when there is none
LastIndexOf(s, c) ==
    IF \E i \in 1..Len(s) : s[i] = c
    THEN CHOOSE i \in 1..Len(s) : s[i] = c /\ \A j \in (i + 1)..Len(s) : s[j] # c
    ELSE 0

\* s.split("/")[-1]: what follows the last "/"
LastComponent(s) == SubSeq(s, LastIndexOf(s, "/") + 1, Len(s))

\* Python's `x in list`
InList(x, list) == \E i \in 1..Len(list) : list[i] = x

\* list.remove(x): drops the first occurrence (the caller checks it is there)
ListRemove(list, x) ==
    LET i == CHOOSE k \in 1..Len(list) : list[k] = x /\ \A j \in 1..(k - 1) : list[j] # x
    IN  SubSeq(list, 1, i - 1) \o SubSeq(list, i + 1, Len(list))

\* removal of the element at position i
RemoveAt(seq, i) == SubSeq(seq, 1, i - 1) \o SubSeq(seq, i + 1, Len(seq))

-----------------------------------------------------------------------------
(* Python dicts: sequences of <<key, value>> items in insertion order    *)

EmptyDict == << >>

DictKeys(d) == [i \in 1..Len(d) |-> d[i][1]]

DictHas(d, k) == \E i \in 1..Len(d) : d[i][1] = k

DictAt(d, k) == d[CHOOSE i \in 1..Len(d) : d[i][1] = k][2]

\* dict.get(k, default)
DictGet(d, k, default) == IF DictHas(d, k) THEN DictAt(d, k) ELSE default

\* d[k] = v: an existing key keeps its place, a new key goes last
DictSet(d, k, v) ==
    IF DictHas(d, k)
    THEN [i \in 1..Len(d) |-> IF d[i][1] = k THEN <<k, v>> ELSE d[i]]
    ELSE Append(d, <<k, v>>)

\* d.update(other)
RECURSIVE DictUpdate(_, _)
DictUpdate(d, other) ==
    IF other = << >> THEN d
    ELSE DictUpdate(DictSet(d, Head(other)[1], Head(other)[2]), Tail(other))

-----------------------------------------------------------------------------
(* Literals of the source                                                *)

s_wav == <<"w", "a", "v">>
s_mp3 == <<"m", "p", "3">>
s_mp4 == <<"m", "p", "4">>
s_m4a == <<"m", "4", "a">>
s_flac == <<"f", "l", "a", "c">>
s_ogg == <<"o", "g", "g">>
s_default == <<"d", "e", "f", "a", "u", "l", "t">>
s_empty == <<"e", "m", "p", "t", "y">>
s_long == <<"l", "o", "n", "g">>
s_silent == <<"s", "i", "l", "e", "n", "t">>
s_extended == <<"e", "x", "t", "e", "n", "d", "e", "d">>

DefaultText == "This is a mock transcription result."
EmptyText == ""
LongText == "This is a very long mock transcription result that simulates processing of lengthy audio files with multiple sentences and complex content to test system behavior with larger outputs."

\* the three built-in responses of MockSpeechToTextModel
BuiltinResponses ==
    << <<s_default, DefaultText>>, <<s_empty, EmptyText>>, <<s_long, LongText>> >>

\* the format list every MockSpeechToTextModel starts with
ModelFormats == <<s_wav, s_mp3, s_mp4, s_m4a, s_flac, s_ogg>>

\* AudioFormatHandler.SUPPORTED_FORMATS
SUPPORTED_FORMATS == <<s_wav, s_mp3, s_mp4, s_m4a, s_flac, s_ogg>>

\* defaults of the mock model's parameters: 0.1 s, 0.0, (0.85, 0.95)
DefaultProcessingDelay == 100
DefaultErrorRate == 0
DefaultConfidenceRange == <<85, 95>>


-----------------------------------------------------------------------------
(* State                                                                 *)

VARIABLES
    \* MockSpeechToTextModel
    parameters,              \* config.parameters, the construction-time dict
    is_loaded,               \* _is_loaded
    processing_delay,        \* _processing_delay (ms)
    error_rate,              \* _error_rate (percent)
    confidence_range,        \* _confidence_range, a pair (percent)
    custom_responses,        \* _custom_responses
    mock_responses,          \* _mock_responses
    simulate_load_failure,   \* _simulate_load_failure
    simulate_health_issues,  \* _simulate_health_issues
    supported_formats,       \* _supported_formats
    \* MockAudioFormatHandler
    simulate_file_not_found,          \* _simulate_file_not_found
    simulate_format_detection_error,  \* _simulate_format_detection_error
    simulate_conversion_error,        \* _simulate_conversion_error
    simulate_metadata_error,          \* _simulate_metadata_error
    conversion_delay,                 \* _conversion_delay (ms)
    mock_file_formats,                \* _mock_file_formats
    mock_metadata,                    \* _mock_metadata
    mock_conversions,                 \* _mock_conversions
    mock_existing_files,              \* _mock_existing_files
    fs_files,                         \* the paths os.path.exists finds
    handler_SUPPORTED_FORMATS,        \* the list AudioFormatHandler.SUPPORTED_FORMATS names
    \* the event loop and the caller
    pending,                 \* the calls suspended in asyncio.sleep, oldest first
    held,                    \* the lists get_supported_formats handed to the caller
    \* the audio format service
    audio_handler,           \* the module's global audio_handler: its class, or None
    last                     \* what the latest step did: the call and its outcome

modelVars == <<parameters, is_loaded, processing_delay, error_rate, confidence_range,
               custom_responses, mock_responses, simulate_load_failure,
               simulate_health_issues, supported_formats>>

handlerVars == <<simulate_file_not_found, simulate_format_detection_error,
                 simulate_conversion_error, simulate_metadata_error, conversion_delay,
                 mock_file_formats, mock_metadata, mock_conversions,
                 mock_existing_files, fs_files, handler_SUPPORTED_FORMATS>>

vars == <<modelVars, handlerVars, pending, held, audio_handler, last>>

NoRequest == [file_path |-> << >>, audio_format |-> << >>]

NoResult == [kind |-> "none"]

\* the record of a step: the operation, how it ended ("ok", "suspended" or the
\* exception raised), whether the call slept before it ended, and its value
Event(op, outcome, delayed, request, result) ==
    [op |-> op, outcome |-> outcome, delayed |-> delayed,
     request |-> request, result |-> result]

\* the value of a load_model or unload_model step: the state the step found
Found(loaded) == [kind |-> "lifecycle", loaded_before |-> loaded]

\* the value of a load_model or unload_model step that resumes the i-th
\* suspended call: the state it found, and the calls in flight that were
\* started before it and after it
FoundResumed(loaded, i) ==
    [kind |-> "lifecycle", loaded_before |-> loaded,
     earlier |-> {pending[k].op : k \in 1..(i - 1)},
     later |-> {pending[k].op : k \in (i + 1)..Len(pending)}]

\* dict.get(name, default) on config.parameters and on **kwargs
ParamGet(params, name, default) ==
    IF name \in DOMAIN params THEN params[name] ELSE default

-----------------------------------------------------------------------------
(* MockSpeechToTextModel                                                 *)

\* __init__: every field from config.parameters, _is_loaded False, the built-in
\* responses with the custom ones merged over them
InitModel(configs) ==
    /\ parameters \in configs
    /\ is_loaded = FALSE
    /\ processing_delay = ParamGet(parameters, "processing_delay", DefaultProcessingDelay)
    /\ error_rate = ParamGet(parameters, "error_rate", DefaultErrorRate)
    /\ confidence_range = ParamGet(parameters, "confidence_range", DefaultConfidenceRange)
    /\ custom_responses = ParamGet(parameters, "custom_responses", EmptyDict)
    /\ simulate_load_failure = ParamGet(parameters, "simulate_load_failure", FALSE)
    /\ simulate_health_issues = ParamGet(parameters, "simulate_health_issues", FALSE)
    /\ mock_responses = DictUpdate(BuiltinResponses, custom_responses)
    /\ supported_formats = ModelFormats

\* _custom_responses is the very dict object of config.parameters when the
\* config carries one (params.get returns it, nothing copies it), so a change
\* made in place to the one is a change of the other
AliasedParameters(custom) ==
    IF "custom_responses" \in DOMAIN parameters
    THEN [parameters EXCEPT !["custom_responses"] = custom]
    ELSE parameters

\* get_supported_formats(): a copy of the instance's list
get_supported_formats == supported_formats

\* validate_request with its two checks swapped
validate_request_format_first(request) ==
    IF ~InList(Lower(request.audio_format), get_supported_formats)
    THEN "AudioFormatError"
    ELSE IF ~is_loaded THEN "ModelLoadError" ELSE "ok"

\* validate_request comparing the format as given, not lower-cased
validate_request_no_lower(request) ==
    IF ~is_loaded THEN "ModelLoadError"
    ELSE IF ~InList(request.audio_format, get_supported_formats)
         THEN "AudioFormatError"
         ELSE "ok"

\* validate_request without its check of the load state
validate_request_no_load_check(request) ==
    IF ~InList(Lower(request.audio_format), get_supported_formats)
    THEN "AudioFormatError"
    ELSE "ok"

\* SpeechToTextModel.validate_request: "ok" or the exception it raises
validate_request(request) ==
    IF ~is_loaded THEN "ModelLoadError"
    ELSE IF ~InList(Lower(request.audio_format), get_supported_formats)
         THEN "AudioFormatError"
         ELSE "ok"

\* _get_response_key looking at the custom keys before the built-in patterns
get_response_key_custom_first(file_path) ==
    LET filename == IF Contains(file_path, <<"/">>)
                    THEN LastComponent(Lower(file_path))
                    ELSE Lower(file_path)
        keys == DictKeys(custom_responses)
    IN  IF \E i \in 1..Len(keys) : Contains(filename, keys[i])
        THEN keys[CHOOSE i \in 1..Len(keys) :
                    /\ Contains(filename, keys[i])
                    /\ \A j \in 1..(i - 1) : ~Contains(filename, keys[j])]
        ELSE IF Contains(filename, s_empty) \/ Contains(filename, s_silent) THEN s_empty
        ELSE IF Contains(filename, s_long) \/ Contains(filename, s_extended) THEN s_long
        ELSE s_default

\* _get_response_key: the key of the canned response for a file path
get_response_key(file_path) ==
    LET filename == IF Contains(file_path, <<"/">>)
                    THEN LastComponent(Lower(file_path))
                    ELSE Lower(file_path)
        keys == DictKeys(custom_responses)
    IN  IF Contains(filename, s_empty) \/ Contains(filename, s_silent) THEN s_empty
        ELSE IF Contains(filename, s_long) \/ Contains(filename, s_extended) THEN s_long
        ELSE IF \E i \in 1..Len(keys) : Contains(filename, keys[i])
             THEN keys[CHOOSE i \in 1..Len(keys) :
                         /\ Contains(filename, keys[i])
                         /\ \A j \in 1..(i - 1) : ~Contains(filename, keys[j])]
             ELSE s_default

\* random.random(): samples of [0, 1), in percent
RandomDraws == {0, 50, 99}

\* random.uniform(a, b) = a + (b - a) * random(): samples between the two
\* ends, whichever is the larger: both ends and the middle
Uniform(a, b) == {a, (a + b) \div 2, b}

\* random.uniform(0.01, 0.05), in ms: its two ends
JitterDraws == {10, 50}

\* TranscriptionResult.__post_init__ without its check of the confidence
TranscriptionResult_post_init_any_confidence(confidence, processing_time, model_used) ==
    IF processing_time < 0 THEN "ValueError"
    ELSE IF model_used = "" THEN "ValueError"
    ELSE "ok"

\* TranscriptionResult.__post_init__: "ok" or the exception it raises
TranscriptionResult_post_init(confidence, processing_time, model_used) ==
    IF ~(0 <= confidence /\ confidence <= 100) THEN "ValueError"
    ELSE IF processing_time < 0 THEN "ValueError"
    ELSE IF model_used = "" THEN "ValueError"
    ELSE "ok"

\* transcribe, from the line after the simulated delay to its return, given
\* its random draws: r of random.random(), c of the confidence, j of the jitter
transcribe_finish(request, delayed, r, c, j) ==
    IF r < error_rate
    THEN last' = Event("transcribe", "TranscriptionError", delayed, request, NoResult)
    ELSE LET response_key == get_response_key(request.file_path)
             mock_text == DictGet(mock_responses, response_key,
                                  DictAt(mock_responses, s_default))
             processing_time == processing_delay + j
             built == TranscriptionResult_post_init(c, processing_time, "mock-mock")
         IN  IF built # "ok"
             THEN last' = Event("transcribe", built, delayed, request, NoResult)
             ELSE last' = Event("transcribe", "ok", delayed, request,
                                [kind |-> "TranscriptionResult", text |-> mock_text,
                                 confidence |-> c, processing_time |-> processing_time,
                                 response_key |-> response_key])

\* the lines of transcribe after the simulated delay, with the draws they
\* make: random.random(), which decides on the simulated error, then
\* random.uniform(min_conf, max_conf), then random.uniform(0.01, 0.05)
transcribe_draws(request, delayed) ==
    \/ /\ {r \in RandomDraws : r < error_rate} # {}
       /\ transcribe_finish(request, delayed,
                            CHOOSE r \in RandomDraws : r < error_rate, 0, 0)
    \/ /\ {r \in RandomDraws : ~(r < error_rate)} # {}
       /\ \E c \in Uniform(confidence_range[1], confidence_range[2]) :
            \E j \in JitterDraws :
              transcribe_finish(request, delayed,
                                CHOOSE r \in RandomDraws : ~(r < error_rate), c, j)

MaxPending == 2

\* transcribe(request), up to its return or its suspension in asyncio.sleep
transcribe(request) ==
    LET checked == validate_request(request)
    IN  /\ IF checked # "ok"
           THEN /\ last' = Event("transcribe", checked, FALSE, request, NoResult)
                /\ UNCHANGED <<pending, held, audio_handler>>
           ELSE IF processing_delay > 0
                THEN /\ Len(pending) < MaxPending
                     /\ UNCHANGED <<held, audio_handler>>
                     /\ pending' = Append(pending, [op |-> "transcribe", request |-> request])
                     /\ last' = Event("transcribe", "suspended", FALSE, request, NoResult)
                ELSE /\ transcribe_draws(request, FALSE)
                     /\ UNCHANGED <<pending, held, audio_handler>>
        /\ UNCHANGED <<modelVars, handlerVars>>

\* transcribe, resumed after asyncio.sleep(self._processing_delay)
transcribe_resume(i) ==
    /\ i \in 1..Len(pending)
    /\ pending[i].op = "transcribe"
    /\ transcribe_draws(pending[i].request, TRUE)
    /\ UNCHANGED <<held, audio_handler>>
    /\ pending' = RemoveAt(pending, i)
    /\ UNCHANGED <<modelVars, handlerVars>>

\* health_check looking at the load state before the injected degradation
health_status_load_first ==
    IF ~is_loaded THEN "unhealthy"
    ELSE IF simulate_health_issues THEN "degraded" ELSE "healthy"

\* health_check(): the status it reports
health_status ==
    IF simulate_health_issues THEN "degraded"
    ELSE IF is_loaded THEN "healthy" ELSE "unhealthy"

health_check ==
    /\ last' = Event("health_check", "ok", FALSE, NoRequest,
                     [kind |-> "health", status |-> health_status,
                      loaded |-> is_loaded])
    /\ UNCHANGED <<modelVars, handlerVars, pending, held, audio_handler>>

\* load_model marking the model loaded before it looks at the failure switch
load_model_marks_first ==
    IF simulate_load_failure
    THEN /\ is_loaded' = TRUE
         /\ last' = Event("load_model", "ModelLoadError", FALSE, NoRequest, Found(is_loaded))
         /\ UNCHANGED <<parameters, processing_delay, error_rate, confidence_range,
                        custom_responses, mock_responses, simulate_load_failure,
                        simulate_health_issues, supported_formats, pending,
                        handlerVars, held, audio_handler>>
    ELSE /\ is_loaded' = TRUE
         /\ last' = Event("load_model", "ok", FALSE, NoRequest, Found(is_loaded))
         /\ UNCHANGED <<parameters, processing_delay, error_rate, confidence_range,
                        custom_responses, mock_responses, simulate_load_failure,
                        simulate_health_issues, supported_formats, pending,
                        handlerVars, held, audio_handler>>

\* load_model(), up to its return or its suspension
load_model ==
    IF simulate_load_failure
    THEN /\ last' = Event("load_model", "ModelLoadError", FALSE, NoRequest, Found(is_loaded))
         /\ UNCHANGED <<modelVars, handlerVars, pending, held, audio_handler>>
    ELSE IF processing_delay > 0
         THEN /\ Len(pending) < MaxPending
              /\ UNCHANGED <<held, audio_handler>>
              /\ pending' = Append(pending, [op |-> "load_model", request |-> NoRequest])
              /\ last' = Event("load_model", "suspended", FALSE, NoRequest, Found(is_loaded))
              /\ UNCHANGED <<modelVars, handlerVars>>
         ELSE /\ is_loaded' = TRUE
              /\ last' = Event("load_model", "ok", FALSE, NoRequest, Found(is_loaded))
              /\ UNCHANGED <<parameters, processing_delay, error_rate, confidence_range,
                             custom_responses, mock_responses, simulate_load_failure,
                             simulate_health_issues, supported_formats, pending,
                             handlerVars, held, audio_handler>>

\* load_model resumed without its assignment of _is_loaded
load_model_resume_keeps_state(i) ==
    /\ i \in 1..Len(pending)
    /\ pending[i].op = "load_model"
    /\ UNCHANGED <<held, audio_handler>>
    /\ pending' = RemoveAt(pending, i)
    /\ last' = Event("load_model", "ok", TRUE, NoRequest, FoundResumed(is_loaded, i))
    /\ UNCHANGED <<modelVars, handlerVars>>

\* load_model, resumed after asyncio.sleep(self._processing_delay * 0.5)
load_model_resume(i) ==
    /\ i \in 1..Len(pending)
    /\ pending[i].op = "load_model"
    /\ is_loaded' = TRUE
    /\ UNCHANGED <<held, audio_handler>>
    /\ pending' = RemoveAt(pending, i)
    /\ last' = Event("load_model", "ok", TRUE, NoRequest, FoundResumed(is_loaded, i))
    /\ UNCHANGED <<parameters, processing_delay, error_rate, confidence_range,
                   custom_responses, mock_responses, simulate_load_failure,
                   simulate_health_issues, supported_formats,
                   handlerVars>>

\* unload_model refusing a model that is not loaded
unload_model_strict ==
    IF ~is_loaded
    THEN /\ last' = Event("unload_model", "ModelLoadError", FALSE, NoRequest, Found(is_loaded))
         /\ UNCHANGED <<modelVars, handlerVars, pending, held, audio_handler>>
    ELSE /\ is_loaded' = FALSE
         /\ last' = Event("unload_model", "ok", FALSE, NoRequest, Found(is_loaded))
         /\ UNCHANGED <<parameters, processing_delay, error_rate, confidence_range,
                        custom_responses, mock_responses, simulate_load_failure,
                        simulate_health_issues, supported_formats, pending,
                        handlerVars, held, audio_handler>>

\* unload_model(), up to its return or its suspension
unload_model ==
    IF processing_delay > 0
    THEN /\ Len(pending) < MaxPending
         /\ UNCHANGED <<held, audio_handler>>
         /\ pending' = Append(pending, [op |-> "unload_model", request |-> NoRequest])
         /\ last' = Event("unload_model", "suspended", FALSE, NoRequest, Found(is_loaded))
         /\ UNCHANGED <<modelVars, handlerVars>>
    ELSE /\ is_loaded' = FALSE
         /\ last' = Event("unload_model", "ok", FALSE, NoRequest, Found(is_loaded))
         /\ UNCHANGED <<parameters, processing_delay, error_rate, confidence_range,
                        custom_responses, mock_responses, simulate_load_failure,
                        simulate_health_issues, supported_formats, pending,
                        handlerVars, held, audio_handler>>

\* unload_model, resumed after asyncio.sleep(self._processing_delay * 0.2)
unload_model_resume(i) ==
    /\ i \in 1..Len(pending)
    /\ pending[i].op = "unload_model"
    /\ is_loaded' = FALSE
    /\ UNCHANGED <<held, audio_handler>>
    /\ pending' = RemoveAt(pending, i)
    /\ last' = Event("unload_model", "ok", TRUE, NoRequest, FoundResumed(is_loaded, i))
    /\ UNCHANGED <<parameters, processing_delay, error_rate, confidence_range,
                   custom_responses, mock_responses, simulate_load_failure,
                   simulate_health_issues, supported_formats,
                   handlerVars>>

\* max(0.0, min(1.0, x)), in percent
ClampRate(x) ==
    LET m == IF x < 100 THEN x ELSE 100
    IN  IF m > 0 THEN m ELSE 0

\* configure_mock_behavior(**kwargs)
configure_mock_behavior(kwargs) ==
    LET custom == IF "custom_responses" \in DOMAIN kwargs
                  THEN DictUpdate(custom_responses, kwargs["custom_responses"])
                  ELSE custom_responses
    IN  /\ processing_delay' = ParamGet(kwargs, "processing_delay", processing_delay)
        /\ error_rate' = IF "error_rate" \in DOMAIN kwargs
                         THEN ClampRate(kwargs["error_rate"])
                         ELSE error_rate
        /\ confidence_range' = ParamGet(kwargs, "confidence_range", confidence_range)
        /\ custom_responses' = custom
        /\ mock_responses' = IF "custom_responses" \in DOMAIN kwargs
                             THEN DictUpdate(mock_responses, custom)
                             ELSE mock_responses
        /\ parameters' = AliasedParameters(custom)
        /\ simulate_load_failure' =
               ParamGet(kwargs, "simulate_load_failure", simulate_load_failure)
        /\ simulate_health_issues' =
               ParamGet(kwargs, "simulate_health_issues", simulate_health_issues)
        /\ last' = Event("configure_mock_behavior", "ok", FALSE, NoRequest, NoResult)
        /\ UNCHANGED <<is_loaded, supported_formats, pending,
                       handlerVars, held, audio_handler>>

\* add_mock_response(key, response)
add_mock_response(key, response) ==
    /\ mock_responses' = DictSet(mock_responses, key, response)
    /\ custom_responses' = DictSet(custom_responses, key, response)
    /\ parameters' = AliasedParameters(custom_responses')
    /\ last' = Event("add_mock_response", "ok", FALSE, NoRequest, NoResult)
    /\ UNCHANGED <<is_loaded, processing_delay, error_rate, confidence_range,
                   simulate_load_failure, simulate_health_issues, supported_formats,
                   pending,
                   handlerVars, held, audio_handler>>

\* a call of validate_request(request) by itself
call_validate_request(request) ==
    /\ last' = Event("validate_request", validate_request(request), FALSE, request,
                     NoResult)
    /\ UNCHANGED <<modelVars, handlerVars, pending, held, audio_handler>>

\* reset_to_defaults() marking the model not loaded as well
reset_to_defaults_unloads ==
    /\ processing_delay' = ParamGet(parameters, "processing_delay", DefaultProcessingDelay)
    /\ error_rate' = ParamGet(parameters, "error_rate", DefaultErrorRate)
    /\ confidence_range' = ParamGet(parameters, "confidence_range", DefaultConfidenceRange)
    /\ simulate_load_failure' = ParamGet(parameters, "simulate_load_failure", FALSE)
    /\ simulate_health_issues' = ParamGet(parameters, "simulate_health_issues", FALSE)
    /\ custom_responses' = ParamGet(parameters, "custom_responses", EmptyDict)
    /\ mock_responses' = DictUpdate(BuiltinResponses, custom_responses')
    /\ is_loaded' = FALSE
    /\ last' = Event("reset_to_defaults", "ok", FALSE, NoRequest, NoResult)
    /\ UNCHANGED <<parameters, supported_formats, pending, handlerVars, held, audio_handler>>

\* reset_to_defaults()
reset_to_defaults ==
    /\ processing_delay' = ParamGet(parameters, "processing_delay", DefaultProcessingDelay)
    /\ error_rate' = ParamGet(parameters, "error_rate", DefaultErrorRate)
    /\ confidence_range' = ParamGet(parameters, "confidence_range", DefaultConfidenceRange)
    /\ simulate_load_failure' = ParamGet(parameters, "simulate_load_failure", FALSE)
    /\ simulate_health_issues' = ParamGet(parameters, "simulate_health_issues", FALSE)
    /\ custom_responses' = ParamGet(parameters, "custom_responses", EmptyDict)
    /\ mock_responses' = DictUpdate(BuiltinResponses, custom_responses')
    /\ last' = Event("reset_to_defaults", "ok", FALSE, NoRequest, NoResult)
    /\ UNCHANGED <<parameters, is_loaded, supported_formats, pending,
                   handlerVars, held, audio_handler>>

\* get_model_info() hands out the instance's own list under
\* "supported_formats"; this is the caller removing an entry from it
info_formats_remove(f) ==
    /\ InList(f, supported_formats)
    /\ supported_formats' = ListRemove(supported_formats, f)
    /\ last' = Event("info_formats_remove", "ok", FALSE, NoRequest, NoResult)
    /\ UNCHANGED <<parameters, is_loaded, processing_delay, error_rate,
                   confidence_range, custom_responses, mock_responses,
                   simulate_load_failure, simulate_health_issues, pending,
                   handlerVars, held, audio_handler>>

\* the caller appending an entry to the list get_model_info() handed out (one
\* the list does not hold)
info_formats_append(f) ==
    /\ ~InList(f, supported_formats)
    /\ supported_formats' = Append(supported_formats, f)
    /\ last' = Event("info_formats_append", "ok", FALSE, NoRequest, NoResult)
    /\ UNCHANGED <<parameters, is_loaded, processing_delay, error_rate,
                   confidence_range, custom_responses, mock_responses,
                   simulate_load_failure, simulate_health_issues, pending,
                   handlerVars, held, audio_handler>>

-----------------------------------------------------------------------------
(* MockAudioFormatHandler                                                *)

s_xyz == <<"x", "y", "z">>
s_test_dir == <<"/", "t", "e", "s", "t", "/">>
s_test_prefix == <<"t", "e", "s", "t", "_">>
s_arrow == <<"-", ">">>
s_converted == <<"_", "c", "o", "n", "v", "e", "r", "t", "e", "d", ".">>

\* default of the handler's conversion_delay: 0.1 s
DefaultConversionDelay == 100

\* __init__(config): every field from the config dict
InitHandler(configs) ==
    \E config \in configs :
        /\ simulate_file_not_found = ParamGet(config, "simulate_file_not_found", FALSE)
        /\ simulate_format_detection_error =
               ParamGet(config, "simulate_format_detection_error", FALSE)
        /\ simulate_conversion_error = ParamGet(config, "simulate_conversion_error", FALSE)
        /\ simulate_metadata_error = ParamGet(config, "simulate_metadata_error", FALSE)
        /\ conversion_delay = ParamGet(config, "conversion_delay", DefaultConversionDelay)
        /\ mock_file_formats = ParamGet(config, "mock_file_formats", EmptyDict)
        /\ mock_metadata = ParamGet(config, "mock_metadata", EmptyDict)
        /\ mock_conversions = ParamGet(config, "mock_conversions", EmptyDict)
        /\ mock_existing_files = ParamGet(config, "mock_existing_files", {})
        /\ handler_SUPPORTED_FORMATS = SUPPORTED_FORMATS

\* os.path.splitext: the extension starts at the last dot of the last path
\* component, dots that lead the component apart
splitext(path) ==
    LET sep == LastIndexOf(path, "/")
        dot == LastIndexOf(path, ".")
    IN  IF dot > sep /\ (\E k \in (sep + 1)..(dot - 1) : path[k] # ".")
        THEN <<SubSeq(path, 1, dot - 1), SubSeq(path, dot, Len(path))>>
        ELSE <<path, << >> >>

\* is_format_supported(format_name)
is_format_supported(format_name) ==
    InList(Lower(format_name),
           [i \in DOMAIN handler_SUPPORTED_FORMATS |->
               Lower(handler_SUPPORTED_FORMATS[i])])

\* os.path.exists
os_path_exists(path) == path \in fs_files

\* _file_exists(file_path)
file_exists(file_path) ==
    LET ext == splitext(file_path)[2]
    IN  \/ file_path \in mock_existing_files
        \/ /\ ext # << >>
           /\ is_format_supported(Tail(ext))
           /\ Contains(file_path, s_test_dir) \/ StartsWith(file_path, s_test_prefix)
        \/ os_path_exists(file_path)

\* how a call of the handler ends before any suspension: the value it returns,
\* or the exception it raises with the text of its message and the path or
\* format the message quotes, and whether the call ran detect_format
Returned(value, detected) ==
    [outcome |-> "ok", value |-> value, message |-> "", about |-> << >>,
     detected |-> detected]

Raised(kind, message, about, detected) ==
    [outcome |-> kind, value |-> << >>, message |-> message, about |-> about,
     detected |-> detected]

NeedsConversion ==
    [outcome |-> "convert", value |-> << >>, message |-> "", about |-> << >>,
     detected |-> TRUE]

\* detect_format inferring the format from the extension before it looks at
\* the registered formats
detect_format_extension_first(file_path) ==
    IF simulate_file_not_found \/ ~file_exists(file_path)
    THEN Raised("FileNotFoundError", "Audio file not found", file_path, TRUE)
    ELSE IF simulate_format_detection_error
    THEN Raised("AudioFormatError", "Mock format detection error", file_path,
                TRUE)
    ELSE LET ext == splitext(file_path)[2]
         IN  IF ext # << >> /\ is_format_supported(Lower(Tail(ext)))
             THEN Returned(Lower(Tail(ext)), TRUE)
             ELSE IF DictHas(mock_file_formats, file_path)
             THEN Returned(DictAt(mock_file_formats, file_path), TRUE)
             ELSE Returned(s_wav, TRUE)

\* detect_format(file_path)
detect_format(file_path) ==
    IF simulate_file_not_found \/ ~file_exists(file_path)
    THEN Raised("FileNotFoundError", "Audio file not found", file_path, TRUE)
    ELSE IF simulate_format_detection_error
    THEN Raised("AudioFormatError", "Mock format detection error", file_path,
                TRUE)
    ELSE IF DictHas(mock_file_formats, file_path)
    THEN Returned(DictAt(mock_file_formats, file_path), TRUE)
    ELSE LET ext == splitext(file_path)[2]
         IN  IF ext # << >> /\ is_format_supported(Lower(Tail(ext)))
             THEN Returned(Lower(Tail(ext)), TRUE)
             ELSE Returned(s_wav, TRUE)

\* convert_if_needed comparing the detected and the target format as written
convert_if_needed_begin_exact_case(file_path, target_format) ==
    IF simulate_file_not_found \/ ~file_exists(file_path)
    THEN Raised("FileNotFoundError", "Audio file not found", file_path, FALSE)
    ELSE IF simulate_conversion_error
    THEN Raised("AudioFormatError", "Mock conversion error", file_path, FALSE)
    ELSE IF ~is_format_supported(target_format)
    THEN Raised("AudioFormatError", "Target format not supported", target_format,
                FALSE)
    ELSE LET current_format == detect_format(file_path)
         IN  IF current_format.outcome # "ok"
             THEN current_format
             ELSE IF current_format.value = target_format
             THEN Returned(file_path, TRUE)
             ELSE NeedsConversion

\* convert_if_needed detecting the current format before it looks at the target
convert_if_needed_begin_detect_first(file_path, target_format) ==
    IF simulate_file_not_found \/ ~file_exists(file_path)
    THEN Raised("FileNotFoundError", "Audio file not found", file_path, FALSE)
    ELSE IF simulate_conversion_error
    THEN Raised("AudioFormatError", "Mock conversion error", file_path, FALSE)
    ELSE LET current_format == detect_format(file_path)
         IN  IF current_format.outcome # "ok"
             THEN current_format
             ELSE IF ~is_format_supported(target_format)
             THEN Raised("AudioFormatError", "Target format not supported", target_format,
                TRUE)
             ELSE IF Lower(current_format.value) = Lower(target_format)
             THEN Returned(file_path, TRUE)
             ELSE NeedsConversion

\* convert_if_needed(file_path, target_format) up to the conversion delay: the
\* error it raises, the path it returns at once, or "convert" when a
\* conversion is needed
convert_if_needed_begin(file_path, target_format) ==
    IF simulate_file_not_found \/ ~file_exists(file_path)
    THEN Raised("FileNotFoundError", "Audio file not found", file_path, FALSE)
    ELSE IF simulate_conversion_error
    THEN Raised("AudioFormatError", "Mock conversion error", file_path, FALSE)
    ELSE IF ~is_format_supported(target_format)
    THEN Raised("AudioFormatError", "Target format not supported", target_format,
                FALSE)
    ELSE LET current_format == detect_format(file_path)
         IN  IF current_format.outcome # "ok"
             THEN current_format
             ELSE IF Lower(current_format.value) = Lower(target_format)
             THEN Returned(file_path, TRUE)
             ELSE NeedsConversion

\* convert_if_needed deriving the path from the lower-cased target and
\* before it looks for a registered conversion
conversion_output_derived_first(file_path, target_format) ==
    splitext(file_path)[1] \o s_converted \o Lower(target_format)

\* convert_if_needed after the delay: the registered output path, or the one
\* derived from the source path and the target format
conversion_output(file_path, target_format) ==
    LET conversion_key == file_path \o s_arrow \o target_format
    IN  IF DictHas(mock_conversions, conversion_key)
        THEN DictAt(mock_conversions, conversion_key)
        ELSE splitext(file_path)[1] \o s_converted \o target_format

ConvertCall(file_path, target_format) ==
    [file_path |-> file_path, target_format |-> target_format]

ConvertResult(ended) ==
    [kind |-> "conversion", path |-> ended.value, message |-> ended.message,
     about |-> ended.about, detected |-> ended.detected]

\* convert_if_needed(file_path, target_format), up to its return, its exception
\* or its suspension in asyncio.sleep
convert_if_needed(file_path, target_format) ==
    LET call == ConvertCall(file_path, target_format)
        begun == convert_if_needed_begin(file_path, target_format)
    IN  /\ IF begun.outcome # "convert"
           THEN /\ last' = Event("convert_if_needed", begun.outcome, FALSE, call,
                                 ConvertResult(begun))
                /\ UNCHANGED <<pending, held, audio_handler>>
           ELSE IF conversion_delay > 0
                THEN /\ Len(pending) < MaxPending
                     /\ UNCHANGED <<held, audio_handler>>
                     /\ pending' = Append(pending, [op |-> "convert_if_needed",
                                                    request |-> call])
                     /\ last' = Event("convert_if_needed", "suspended", FALSE, call,
                                      ConvertResult(begun))
                ELSE /\ last' = Event("convert_if_needed", "ok", FALSE, call,
                                      ConvertResult(Returned(
                                          conversion_output(file_path, target_format),
                                          TRUE)))
                     /\ UNCHANGED <<pending, held, audio_handler>>
        /\ UNCHANGED <<modelVars, handlerVars>>

\* convert_if_needed, resumed after asyncio.sleep(self._conversion_delay)
convert_if_needed_resume(i) ==
    /\ i \in 1..Len(pending)
    /\ pending[i].op = "convert_if_needed"
    /\ last' = Event("convert_if_needed", "ok", TRUE, pending[i].request,
                     ConvertResult(Returned(
                         conversion_output(pending[i].request.file_path,
                                           pending[i].request.target_format),
                         TRUE)))
    /\ UNCHANGED <<held, audio_handler>>
    /\ pending' = RemoveAt(pending, i)
    /\ UNCHANGED <<modelVars, handlerVars>>

\* MockAudioFormatHandler.configure_mock_behavior(**kwargs)
handler_configure_mock_behavior(kwargs) ==
    /\ simulate_file_not_found' =
           ParamGet(kwargs, "simulate_file_not_found", simulate_file_not_found)
    /\ simulate_format_detection_error' =
           ParamGet(kwargs, "simulate_format_detection_error",
                    simulate_format_detection_error)
    /\ simulate_conversion_error' =
           ParamGet(kwargs, "simulate_conversion_error", simulate_conversion_error)
    /\ simulate_metadata_error' =
           ParamGet(kwargs, "simulate_metadata_error", simulate_metadata_error)
    /\ conversion_delay' = ParamGet(kwargs, "conversion_delay", conversion_delay)
    /\ last' = Event("handler.configure_mock_behavior", "ok", FALSE, NoRequest, NoResult)
    /\ UNCHANGED <<modelVars, handler_SUPPORTED_FORMATS, mock_file_formats, mock_metadata, mock_conversions,
                   mock_existing_files, fs_files, pending, held, audio_handler>>

\* add_mock_file(file_path, format_name, metadata), an empty dict standing for
\* no metadata
add_mock_file(file_path, format_name, metadata) ==
    /\ mock_existing_files' = mock_existing_files \cup {file_path}
    /\ mock_file_formats' = DictSet(mock_file_formats, file_path, format_name)
    /\ mock_metadata' = IF metadata # EmptyDict
                        THEN DictSet(mock_metadata, file_path, metadata)
                        ELSE mock_metadata
    /\ last' = Event("add_mock_file", "ok", FALSE, NoRequest, NoResult)
    /\ UNCHANGED <<modelVars, handler_SUPPORTED_FORMATS, simulate_file_not_found, simulate_format_detection_error,
                   simulate_conversion_error, simulate_metadata_error,
                   conversion_delay, mock_conversions, fs_files, pending, held, audio_handler>>

\* add_mock_conversion(source_path, target_format, converted_path)
add_mock_conversion(source_path, target_format, converted_path) ==
    /\ mock_conversions' =
           DictSet(mock_conversions, source_path \o s_arrow \o target_format,
                   converted_path)
    /\ last' = Event("add_mock_conversion", "ok", FALSE, NoRequest, NoResult)
    /\ UNCHANGED <<modelVars, handler_SUPPORTED_FORMATS, simulate_file_not_found, simulate_format_detection_error,
                   simulate_conversion_error, simulate_metadata_error,
                   conversion_delay, mock_file_formats, mock_metadata,
                   mock_existing_files, fs_files, pending, held, audio_handler>>

\* reset_mock_state()
reset_mock_state ==
    /\ simulate_file_not_found' = FALSE
    /\ simulate_format_detection_error' = FALSE
    /\ simulate_conversion_error' = FALSE
    /\ simulate_metadata_error' = FALSE
    /\ conversion_delay' = DefaultConversionDelay
    /\ mock_file_formats' = EmptyDict
    /\ mock_metadata' = EmptyDict
    /\ mock_conversions' = EmptyDict
    /\ mock_existing_files' = {}
    /\ last' = Event("reset_mock_state", "ok", FALSE, NoRequest, NoResult)
    /\ UNCHANGED <<modelVars, handler_SUPPORTED_FORMATS, fs_files, pending, held, audio_handler>>

\* None, where a parameter or a value of the code is None: no string equals it
None == <<"None">>

\* validate_format letting the AudioFormatError of detect_format through
validate_format_raises(file_path, expected_format) ==
    IF simulate_file_not_found \/ ~file_exists(file_path)
    THEN Raised("FileNotFoundError", "Audio file not found", file_path, FALSE)
    ELSE LET detected_format == detect_format(file_path)
         IN  IF detected_format.outcome # "ok"
             THEN detected_format
             ELSE IF expected_format = None
             THEN Returned(is_format_supported(detected_format.value), TRUE)
             ELSE Returned(Lower(detected_format.value) = Lower(expected_format), TRUE)

\* validate_format(file_path, expected_format): the boolean it returns or the
\* exception it raises
validate_format(file_path, expected_format) ==
    IF simulate_file_not_found \/ ~file_exists(file_path)
    THEN Raised("FileNotFoundError", "Audio file not found", file_path, FALSE)
    ELSE LET detected_format == detect_format(file_path)
         IN  IF detected_format.outcome = "AudioFormatError"
             THEN Returned(FALSE, TRUE)
             ELSE IF detected_format.outcome # "ok"
             THEN detected_format
             ELSE IF expected_format = None
             THEN Returned(is_format_supported(detected_format.value), TRUE)
             ELSE Returned(Lower(detected_format.value) = Lower(expected_format), TRUE)

s_short == <<"s", "h", "o", "r", "t">>
s_mono == <<"m", "o", "n", "o">>
s_stereo == <<"s", "t", "e", "r", "e", "o">>
s_2ch == <<"2", "c", "h">>
s_surround == <<"s", "u", "r", "r", "o", "u", "n", "d">>
s_5_1 == <<"5", ".", "1">>

\* os.path.basename(file_path).lower()
basename_lower(file_path) == Lower(LastComponent(file_path))

\* _generate_mock_duration(file_path), in tenths of a second
generate_mock_duration(file_path) ==
    LET filename == basename_lower(file_path)
    IN  IF Contains(filename, s_short) THEN 52
        ELSE IF Contains(filename, s_long) \/ Contains(filename, s_extended) THEN 1807
        ELSE IF Contains(filename, s_empty) \/ Contains(filename, s_silent) THEN 0
        ELSE 305

\* _generate_mock_sample_rate(format_name)
generate_mock_sample_rate(format_name) ==
    IF Lower(format_name) = s_flac THEN 48000 ELSE 44100

\* _generate_mock_channels(file_path)
generate_mock_channels(file_path) ==
    LET filename == basename_lower(file_path)
    IN  IF Contains(filename, s_mono) THEN 1
        ELSE IF Contains(filename, s_stereo) \/ Contains(filename, s_2ch) THEN 2
        ELSE IF Contains(filename, s_surround) \/ Contains(filename, s_5_1) THEN 6
        ELSE 2

\* _generate_mock_bitrate(format_name); 0 stands for the None of the formats
\* that have no bitrate
generate_mock_bitrate(format_name) ==
    LET name == Lower(format_name)
    IN  IF name = s_mp3 \/ name = s_ogg THEN 320
        ELSE IF name = s_m4a \/ name = s_mp4 THEN 256
        ELSE 0

\* _generate_mock_file_size(duration, bitrate), the duration in tenths of a
\* second: int(duration * 1.4 * 1024 * 1024 / 60), int(duration * bitrate * 1024 / 8)
generate_mock_file_size(duration, bitrate) ==
    IF bitrate = 0
    THEN (duration * 917504) \div 375
    ELSE (duration * bitrate * 128) \div 10

\* the metadata get_audio_metadata generates for a file of a format
generated_metadata(file_path, format_name) ==
    LET duration == generate_mock_duration(file_path)
        bitrate == generate_mock_bitrate(format_name)
    IN  << <<"duration", duration>>,
           <<"sample_rate", generate_mock_sample_rate(format_name)>>,
           <<"channels", generate_mock_channels(file_path)>>,
           <<"bitrate", bitrate>>,
           <<"format", format_name>>,
           <<"size", generate_mock_file_size(duration, bitrate)>>,
           <<"mock_generated", TRUE>> >>

\* get_audio_metadata looking at the simulated metadata error before it looks
\* for the file
get_audio_metadata_error_first(file_path) ==
    IF simulate_metadata_error
    THEN Raised("AudioFormatError", "Mock metadata extraction error", file_path, FALSE)
    ELSE IF simulate_file_not_found \/ ~file_exists(file_path)
    THEN Raised("FileNotFoundError", "Audio file not found", file_path, FALSE)
    ELSE IF DictHas(mock_metadata, file_path)
    THEN Returned(DictAt(mock_metadata, file_path), FALSE)
    ELSE LET detected_format == detect_format(file_path)
         IN  IF detected_format.outcome # "ok"
             THEN detected_format
             ELSE Returned(generated_metadata(file_path, detected_format.value), TRUE)

\* get_audio_metadata reporting the format of the file's extension
get_audio_metadata_extension_format(file_path) ==
    IF simulate_file_not_found \/ ~file_exists(file_path)
    THEN Raised("FileNotFoundError", "Audio file not found", file_path, FALSE)
    ELSE IF simulate_metadata_error
    THEN Raised("AudioFormatError", "Mock metadata extraction error", file_path, FALSE)
    ELSE IF DictHas(mock_metadata, file_path)
    THEN Returned(DictAt(mock_metadata, file_path), FALSE)
    ELSE LET detected_format == detect_format(file_path)
             ext == splitext(file_path)[2]
         IN  IF detected_format.outcome # "ok"
             THEN detected_format
             ELSE Returned(generated_metadata(file_path,
                               IF ext # << >> THEN Lower(Tail(ext)) ELSE s_wav), TRUE)

\* get_audio_metadata(file_path): the dict it returns or the exception it raises
get_audio_metadata(file_path) ==
    IF simulate_file_not_found \/ ~file_exists(file_path)
    THEN Raised("FileNotFoundError", "Audio file not found", file_path, FALSE)
    ELSE IF simulate_metadata_error
    THEN Raised("AudioFormatError", "Mock metadata extraction error", file_path, FALSE)
    ELSE IF DictHas(mock_metadata, file_path)
    THEN Returned(DictAt(mock_metadata, file_path), FALSE)
    ELSE LET detected_format == detect_format(file_path)
         IN  IF detected_format.outcome # "ok"
             THEN detected_format
             ELSE Returned(generated_metadata(file_path, detected_format.value), TRUE)

\* the record of a call of the handler that does not suspend
HandlerResult(ended) ==
    [kind |-> "handler", value |-> ended.value, message |-> ended.message,
     about |-> ended.about, detected |-> ended.detected]

\* a call of detect_format(file_path)
call_detect_format(file_path) ==
    LET ended == detect_format(file_path)
    IN  /\ last' = Event("detect_format", ended.outcome, FALSE,
                         [file_path |-> file_path], HandlerResult(ended))
        /\ UNCHANGED <<modelVars, handlerVars, pending, held, audio_handler>>

\* a call of validate_format(file_path, expected_format)
call_validate_format(file_path, expected_format) ==
    LET ended == validate_format(file_path, expected_format)
    IN  /\ last' = Event("validate_format", ended.outcome, FALSE,
                         [file_path |-> file_path, expected_format |-> expected_format],
                         HandlerResult(ended))
        /\ UNCHANGED <<modelVars, handlerVars, pending, held, audio_handler>>

\* a call of get_audio_metadata(file_path)
call_get_audio_metadata(file_path) ==
    LET ended == get_audio_metadata(file_path)
    IN  /\ last' = Event("get_audio_metadata", ended.outcome, FALSE,
                         [file_path |-> file_path], HandlerResult(ended))
        /\ UNCHANGED <<modelVars, handlerVars, pending, held, audio_handler>>

\* lossy_formats and lossless_formats of get_conversion_info
lossy_formats == {s_mp3, s_m4a, s_ogg}

lossless_formats == {s_wav, s_flac}

\* get_conversion_info comparing the two formats as written
get_conversion_info_exact_case(source_format, target_format) ==
    LET conversion_needed == source_format # target_format
        source_lossy == Lower(source_format) \in lossy_formats
        target_lossy == Lower(target_format) \in lossy_formats
        quality_loss ==
            /\ conversion_needed
            /\ \/ Lower(source_format) \in lossless_formats /\ target_lossy
               \/ /\ source_lossy
                  /\ target_lossy
                  /\ source_format # target_format
    IN  [needed |-> conversion_needed,
         supported |-> is_format_supported(source_format)
                         /\ is_format_supported(target_format),
         quality_loss |-> quality_loss,
         estimated_time |-> IF conversion_needed THEN 15 ELSE 1]

\* get_conversion_info(source_format, target_format): the dict it returns, the
\* estimated time in tenths
get_conversion_info(source_format, target_format) ==
    LET conversion_needed == Lower(source_format) # Lower(target_format)
        source_lossy == Lower(source_format) \in lossy_formats
        target_lossy == Lower(target_format) \in lossy_formats
        quality_loss ==
            /\ conversion_needed
            /\ \/ Lower(source_format) \in lossless_formats /\ target_lossy
               \/ /\ source_lossy
                  /\ target_lossy
                  /\ Lower(source_format) # Lower(target_format)
    IN  [needed |-> conversion_needed,
         supported |-> is_format_supported(source_format)
                         /\ is_format_supported(target_format),
         quality_loss |-> quality_loss,
         estimated_time |-> IF conversion_needed THEN 15 ELSE 1]

\* a call of get_conversion_info(source_format, target_format)
call_get_conversion_info(source_format, target_format) ==
    /\ last' = Event("get_conversion_info", "ok", FALSE,
                     [source_format |-> source_format, target_format |-> target_format],
                     HandlerResult(Returned(
                         get_conversion_info(source_format, target_format), FALSE)))
    /\ UNCHANGED <<modelVars, handlerVars, pending, held, audio_handler>>

\* what the except clause of validate_audio_request makes of an exception
\* raised in its try block: a ValidationError whose message ends with the
\* message of the exception caught
Wrapped(caught) ==
    [outcome |-> "ValidationError", value |-> << >>,
     message |-> "Failed to validate audio file", about |-> caught.about,
     detected |-> TRUE, caught |-> caught.outcome, caught_message |-> caught.message]

\* validate_audio_request raising the mismatch outside its try block
validate_audio_request_unwrapped(request) ==
    IF ~file_exists(request.file_path)
    THEN Raised("ValidationError", "Audio file not found", request.file_path, FALSE)
    ELSE IF ~is_format_supported(request.audio_format)
    THEN Raised("AudioFormatError", "Audio format not supported",
                request.audio_format, FALSE)
    ELSE LET detected_format == detect_format(request.file_path)
         IN  IF detected_format.outcome # "ok"
             THEN Wrapped(detected_format)
             ELSE IF Lower(detected_format.value) # Lower(request.audio_format)
             THEN Raised("AudioFormatError", "File format mismatch",
                         request.audio_format, TRUE)
             ELSE Returned(None, TRUE)

\* validate_audio_request detecting the format before it looks at the declared
\* one
validate_audio_request_detect_first(request) ==
    IF ~file_exists(request.file_path)
    THEN Raised("ValidationError", "Audio file not found", request.file_path, FALSE)
    ELSE LET detected_format == detect_format(request.file_path)
         IN  IF detected_format.outcome # "ok"
             THEN Wrapped(detected_format)
             ELSE IF ~is_format_supported(request.audio_format)
             THEN Raised("AudioFormatError", "Audio format not supported",
                         request.audio_format, TRUE)
             ELSE IF Lower(detected_format.value) # Lower(request.audio_format)
             THEN Wrapped(Raised("AudioFormatError", "File format mismatch",
                                 request.audio_format, TRUE))
             ELSE Returned(None, TRUE)

\* MockAudioFormatHandler.validate_audio_request(request): None or the
\* exception it raises
validate_audio_request(request) ==
    IF ~file_exists(request.file_path)
    THEN Raised("ValidationError", "Audio file not found", request.file_path, FALSE)
    ELSE IF ~is_format_supported(request.audio_format)
    THEN Raised("AudioFormatError", "Audio format not supported",
                request.audio_format, FALSE)
    ELSE LET detected_format == detect_format(request.file_path)
         IN  IF detected_format.outcome # "ok"
             THEN Wrapped(detected_format)
             ELSE IF Lower(detected_format.value) # Lower(request.audio_format)
             THEN Wrapped(Raised("AudioFormatError", "File format mismatch",
                                 request.audio_format, TRUE))
             ELSE Returned(None, TRUE)

\* AudioFormatHandler.validate_audio_request(request), the method the mock
\* overrides, run on the mock handler: the file is looked for on disk
AudioFormatHandler_validate_audio_request(request) ==
    IF ~os_path_exists(request.file_path)
    THEN Raised("ValidationError", "Audio file not found", request.file_path, FALSE)
    ELSE IF ~is_format_supported(request.audio_format)
    THEN Raised("AudioFormatError", "Audio format not supported",
                request.audio_format, FALSE)
    ELSE LET detected_format == detect_format(request.file_path)
         IN  IF detected_format.outcome # "ok"
             THEN Wrapped(detected_format)
             ELSE IF Lower(detected_format.value) # Lower(request.audio_format)
             THEN Wrapped(Raised("AudioFormatError", "File format mismatch",
                                 request.audio_format, TRUE))
             ELSE Returned(None, TRUE)

\* a call of validate_audio_request(request) on the mock handler
call_validate_audio_request(request) ==
    LET ended == validate_audio_request(request)
    IN  /\ last' = Event("validate_audio_request", ended.outcome, FALSE, request,
                         [kind |-> "validation", ended |-> ended])
        /\ UNCHANGED <<modelVars, handlerVars, pending, held, audio_handler>>

\* a call of the method of the interface on the mock handler
call_AudioFormatHandler_validate_audio_request(request) ==
    LET ended == AudioFormatHandler_validate_audio_request(request)
    IN  /\ last' = Event("AudioFormatHandler.validate_audio_request", ended.outcome,
                         FALSE, request, [kind |-> "validation", ended |-> ended])
        /\ UNCHANGED <<modelVars, handlerVars, pending, held, audio_handler>>

\* how many lists the caller keeps: when it asks for one more, it lets go of
\* the oldest
MaxHeld == 2

\* get_supported_formats returning the list it reads, not a copy of it
list_itself(owner, list) == [owner |-> owner, shared |-> TRUE, value |-> << >>]

\* list.copy() in get_supported_formats: a new list object holding the elements
\* of the list of the owner ("model": _supported_formats; "handler":
\* SUPPORTED_FORMATS). A list that is not shared has its elements in value
list_copy(owner, list) == [owner |-> owner, shared |-> FALSE, value |-> list]

\* the elements of the i-th list the caller holds
held_list(i) ==
    IF ~held[i].shared THEN held[i].value
    ELSE IF held[i].owner = "model" THEN supported_formats
    ELSE handler_SUPPORTED_FORMATS

\* the caller keeps the list a call returned
hold(returned) ==
    Append(IF Len(held) < MaxHeld THEN held ELSE Tail(held), returned)

FormatsResult(list) == [kind |-> "formats", value |-> list]

\* a call of MockSpeechToTextModel.get_supported_formats()
call_get_supported_formats ==
    /\ held' = hold(list_copy("model", supported_formats))
    /\ last' = Event("get_supported_formats", "ok", FALSE, NoRequest,
                     FormatsResult(supported_formats))
    /\ UNCHANGED <<modelVars, handlerVars, pending, audio_handler>>

\* get_model_info(): the dict it builds; "parameters" and "supported_formats"
\* are the model's own objects, the other entries are values or new lists;
\* the caller then holds the model's list of formats
info_supported_formats == [owner |-> "model", shared |-> TRUE, value |-> << >>]

get_model_info ==
    /\ held' = hold(info_supported_formats)
    /\ last' = Event("get_model_info", "ok", FALSE, NoRequest,
                     [kind |-> "info", parameters |-> parameters,
                      loaded |-> is_loaded, supported_formats |-> supported_formats,
                      mock_responses |-> DictKeys(mock_responses),
                      processing_delay |-> processing_delay,
                      error_rate |-> error_rate])
    /\ UNCHANGED <<modelVars, handlerVars, pending, audio_handler>>

\* a call of AudioFormatHandler.get_supported_formats() on the handler
call_AudioFormatHandler_get_supported_formats ==
    /\ held' = hold(list_copy("handler", handler_SUPPORTED_FORMATS))
    /\ last' = Event("AudioFormatHandler.get_supported_formats", "ok", FALSE,
                     NoRequest, FormatsResult(handler_SUPPORTED_FORMATS))
    /\ UNCHANGED <<modelVars, handlerVars, pending, audio_handler>>

\* a call of is_format_supported(format_name)
call_is_format_supported(format_name) ==
    /\ last' = Event("is_format_supported", "ok", FALSE,
                     [format_name |-> format_name],
                     HandlerResult(Returned(is_format_supported(format_name), FALSE)))
    /\ UNCHANGED <<modelVars, handlerVars, pending, held, audio_handler>>

\* the caller's mutation of the i-th list it holds reaches the list object
\* itself: the caller's own list, or the one of the model or of the handler
\* when that is the object the caller holds
caller_list_set(i, elements) ==
    /\ IF ~held[i].shared
       THEN /\ held' = [held EXCEPT ![i].value = elements]
            /\ UNCHANGED <<supported_formats, handler_SUPPORTED_FORMATS>>
       ELSE IF held[i].owner = "model"
       THEN /\ supported_formats' = elements
            /\ UNCHANGED <<held, handler_SUPPORTED_FORMATS>>
       ELSE /\ handler_SUPPORTED_FORMATS' = elements
            /\ UNCHANGED <<held, supported_formats>>
    /\ UNCHANGED <<parameters, is_loaded, processing_delay, error_rate,
                   confidence_range, custom_responses, mock_responses,
                   simulate_load_failure, simulate_health_issues,
                   simulate_file_not_found, simulate_format_detection_error,
                   simulate_conversion_error, simulate_metadata_error,
                   conversion_delay, mock_file_formats, mock_metadata,
                   mock_conversions, mock_existing_files, fs_files, pending,
                   audio_handler>>

\* formats.append(format_name) on a list the caller holds
caller_list_append(i, format_name) ==
    /\ i \in DOMAIN held
    /\ ~InList(format_name, held_list(i))
    /\ caller_list_set(i, Append(held_list(i), format_name))
    /\ last' = Event("list.append", "ok", FALSE, NoRequest, NoResult)

\* formats.remove(format_name) on a list the caller holds
caller_list_remove(i, format_name) ==
    /\ i \in DOMAIN held
    /\ InList(format_name, held_list(i))
    /\ caller_list_set(i, ListRemove(held_list(i), format_name))
    /\ last' = Event("list.remove", "ok", FALSE, NoRequest, NoResult)

\* formats.clear() on a list the caller holds
caller_list_clear(i) ==
    /\ i \in DOMAIN held
    /\ held_list(i) # << >>
    /\ caller_list_set(i, << >>)
    /\ last' = Event("list.clear", "ok", FALSE, NoRequest, NoResult)

s_text == <<"t", "e", "x", "t">>
s_json == <<"j", "s", "o", "n">>
s_JSON == <<"J", "S", "O", "N">>
s_xml == <<"x", "m", "l">>

\* AudioRequest.SUPPORTED_AUDIO_FORMATS and AudioRequest.SUPPORTED_OUTPUT_FORMATS
SUPPORTED_AUDIO_FORMATS == <<s_wav, s_mp3, s_mp4, s_m4a, s_flac, s_ogg>>

SUPPORTED_OUTPUT_FORMATS == <<s_text, s_json>>

\* AudioRequest.__post_init__ comparing audio_format as written
AudioRequest_post_init_exact_case(file_path, audio_format, output_format) ==
    IF file_path = << >>
    THEN [outcome |-> "ValueError", message |-> "file_path cannot be empty"]
    ELSE IF ~InList(audio_format, SUPPORTED_AUDIO_FORMATS)
    THEN [outcome |-> "ValueError", message |-> "Unsupported audio format"]
    ELSE IF ~InList(output_format, SUPPORTED_OUTPUT_FORMATS)
    THEN [outcome |-> "ValueError", message |-> "Unsupported output format"]
    ELSE [outcome |-> "ok", message |-> ""]

\* AudioRequest.__post_init__: "ok" or the exception it raises
AudioRequest_post_init(file_path, audio_format, output_format) ==
    IF file_path = << >>
    THEN [outcome |-> "ValueError", message |-> "file_path cannot be empty"]
    ELSE IF ~InList(Lower(audio_format), SUPPORTED_AUDIO_FORMATS)
    THEN [outcome |-> "ValueError", message |-> "Unsupported audio format"]
    ELSE IF ~InList(output_format, SUPPORTED_OUTPUT_FORMATS)
    THEN [outcome |-> "ValueError", message |-> "Unsupported output format"]
    ELSE [outcome |-> "ok", message |-> ""]

\* AudioRequest(file_path, audio_format, output_format): the dataclass assigns
\* the fields and runs __post_init__; the caller gets the object only if
\* __post_init__ returns
AudioRequest(file_path, audio_format, output_format) ==
    LET checked == AudioRequest_post_init(file_path, audio_format, output_format)
        fields == [file_path |-> file_path, audio_format |-> audio_format,
                   output_format |-> output_format]
    IN  /\ last' = Event("AudioRequest", checked.outcome, FALSE, fields,
                         IF checked.outcome = "ok"
                         THEN [kind |-> "request", built |-> TRUE,
                               message |-> checked.message, value |-> fields]
                         ELSE [kind |-> "request", built |-> FALSE,
                               message |-> checked.message])
        /\ UNCHANGED <<modelVars, handlerVars, pending, held, audio_handler>>

\* a handler built without a config, and a file system without audio files,
\* beside the model under study
IdleHandler ==
    /\ InitHandler({[simulate_file_not_found |-> FALSE]})
    /\ fs_files = {}

-----------------------------------------------------------------------------
(* The life cycle of one model: load, unload, transcribe, health check,  *)
(* under run-time reconfiguration                                        *)

s_WAV == <<"W", "A", "V">>
p_audio_wav == <<"/", "t", "e", "s", "t", "/", "a", "u", "d", "i", "o", ".", "w", "a", "v">>

\* construction-time parameters: none of the mock's knobs, the fast error-free
\* knobs of the test suite's fixture, and a model built to fail loading
LifecycleConfigs ==
    { [language |-> "en"],
      [processing_delay |-> 0, simulate_load_failure |-> TRUE, error_rate |-> 100] }

LifecycleRequests ==
    { [file_path |-> p_audio_wav, audio_format |-> f] : f \in {s_WAV, s_mp3} }

LifecycleKwargs ==
    { [processing_delay |-> 0], [processing_delay |-> 100],
      [error_rate |-> 0], [error_rate |-> 150],
      [simulate_load_failure |-> TRUE], [simulate_load_failure |-> FALSE] }

InitLoop ==
    /\ pending = << >>
    /\ held = << >>
    /\ audio_handler = "None"
    /\ last = Event("__init__", "ok", FALSE, NoRequest, NoResult)

Init ==
    /\ InitModel(LifecycleConfigs)
    /\ IdleHandler
    /\ InitLoop

Next ==
    \/ \E request \in LifecycleRequests : transcribe(request)
    \/ \E i \in 1..Len(pending) : transcribe_resume(i)
    \/ load_model
    \/ \E i \in 1..Len(pending) : load_model_resume(i)
    \/ unload_model
    \/ \E i \in 1..Len(pending) : unload_model_resume(i)
    \/ \E kwargs \in LifecycleKwargs : configure_mock_behavior(kwargs)
    \/ reset_to_defaults
    \/ info_formats_remove(s_wav)
    \/ info_formats_append(s_wav)

Spec == Init /\ [][Next]_vars

-----------------------------------------------------------------------------
(* Claims on the life cycle                                              *)

\* the step just taken is a call of transcribe, up to its first suspension
TranscribeCalled == last.op = "transcribe" /\ ~last.delayed

\* the format of the request of the step just taken is in the instance's list
RequestFormatListed == InList(Lower(last.request.audio_format), supported_formats)

\* C1: a transcribe call on an Unloaded model fails with ModelLoadError, whatever
\* the request's format and the error rate, and it is not suspended first.
C1_UnloadedTranscribeFails ==
    (TranscribeCalled /\ ~is_loaded) => last.outcome = "ModelLoadError"

\* C1 happens: an Unloaded model with error_rate 1.0 and a delay configured has
\* refused, with ModelLoadError, a request whose format it does not list.
C1_Witness ==
    /\ TranscribeCalled /\ ~is_loaded
    /\ last.outcome = "ModelLoadError"
    /\ ~RequestFormatListed
    /\ error_rate = 100
    /\ processing_delay > 0

\* C2: a new model is Unloaded; a load_model that returns leaves the model
\* Loaded; unload_model never raises, and when it returns the model is
\* Unloaded, whether it was Loaded or not and whatever simulate_load_failure is.
C2_LoadUnloadStateMachine ==
    /\ last.op = "__init__" => ~is_loaded
    /\ (last.op = "load_model" /\ last.outcome = "ok") => is_loaded
    /\ last.op = "unload_model" => last.outcome \in {"ok", "suspended"}
    /\ (last.op = "unload_model" /\ last.outcome = "ok") => ~is_loaded

\* C2 happens: unload_model returned on a model that was already Unloaded and
\* has simulate_load_failure set.
C2_Witness ==
    /\ last.op = "unload_model" /\ last.outcome = "ok"
    /\ ~last.result.loaded_before
    /\ simulate_load_failure
    /\ ~is_loaded

\* C3: with simulate_load_failure set, a load_model call fails with
\* ModelLoadError and an Unloaded model is still Unloaded after it; a transcribe
\* call that follows fails with ModelLoadError.
C3_FailedLoadStaysUnloaded ==
    /\ [](/\ (last.op = "load_model" /\ ~last.delayed /\ simulate_load_failure)
               => last.outcome = "ModelLoadError"
          /\ (last.op = "load_model" /\ last.outcome = "ModelLoadError"
                /\ ~last.result.loaded_before)
               => ~is_loaded)
    /\ [][(/\ last.op = "load_model" /\ last.outcome = "ModelLoadError"
           /\ ~last.result.loaded_before
           /\ last'.op = "transcribe" /\ ~last'.delayed)
          => last'.outcome = "ModelLoadError"]_vars

\* C3 happens: a load_model call has just failed on an Unloaded model.
C3_Witness ==
    /\ last.op = "load_model" /\ last.outcome = "ModelLoadError"
    /\ ~last.result.loaded_before
    /\ simulate_load_failure
    /\ ~is_loaded

\* C4: a transcribe call on a Loaded model fails with AudioFormatError exactly
\* when the lower-cased request format is not in the instance's own list, before
\* any delay; TranscriptionError is raised only past both checks.
C4_FormatCheckedAfterLoad ==
    /\ (TranscribeCalled /\ is_loaded)
         => (last.outcome = "AudioFormatError" <=> ~RequestFormatListed)
    /\ (TranscribeCalled /\ last.outcome = "TranscriptionError")
         => (is_loaded /\ RequestFormatListed)

\* C4 happens: a Loaded model with error_rate 1.0 and a delay configured has
\* refused, with AudioFormatError, a format that the handler's global set holds.
C4_Witness ==
    /\ TranscribeCalled /\ is_loaded
    /\ last.outcome = "AudioFormatError"
    /\ InList(Lower(last.request.audio_format), SUPPORTED_FORMATS)
    /\ error_rate = 100
    /\ processing_delay > 0

-----------------------------------------------------------------------------
(* Confidence of the results, under every kind of configured range       *)

ConfidenceConfigs ==
    { [processing_delay |-> 0, error_rate |-> 0, confidence_range |-> <<80, 90>>] }

\* ranges inside [0, 1], reaching out of it above and below, wholly outside it,
\* and given with the larger end first
ConfidenceKwargs ==
    { [confidence_range |-> <<70, 80>>], [confidence_range |-> <<90, 110>>],
      [confidence_range |-> <<-10, 10>>], [confidence_range |-> <<120, 150>>],
      [confidence_range |-> <<95, 85>>],
      [processing_delay |-> 0], [processing_delay |-> 100] }

ConfidenceRequests == { [file_path |-> p_audio_wav, audio_format |-> s_wav] }

InitConfidence ==
    /\ InitModel(ConfidenceConfigs)
    /\ IdleHandler
    /\ InitLoop

NextConfidence ==
    \/ \E request \in ConfidenceRequests : transcribe(request)
    \/ \E i \in 1..Len(pending) : transcribe_resume(i)
    \/ load_model
    \/ \E i \in 1..Len(pending) : load_model_resume(i)
    \/ \E kwargs \in ConfidenceKwargs : configure_mock_behavior(kwargs)
    \/ reset_to_defaults

SpecConfidence == InitConfidence /\ [][NextConfidence]_vars

\* the step just taken is a transcribe that returned a TranscriptionResult
TranscribeReturned == last.op = "transcribe" /\ last.outcome = "ok"

\* C5 as stated: a returned confidence is in [0.0, 1.0] and between the first
\* and the second value of the configured confidence_range.
C5_AsStated ==
    TranscribeReturned =>
        /\ 0 <= last.result.confidence /\ last.result.confidence <= 100
        /\ confidence_range[1] <= last.result.confidence
        /\ last.result.confidence <= confidence_range[2]

\* C5, amended: a returned confidence is in [0.0, 1.0] and between the two
\* values of the configured confidence_range, whichever of them is the larger.
C5_ConfidenceBound ==
    TranscribeReturned =>
        /\ 0 <= last.result.confidence /\ last.result.confidence <= 100
        /\ \/ /\ confidence_range[1] <= last.result.confidence
              /\ last.result.confidence <= confidence_range[2]
           \/ /\ confidence_range[2] <= last.result.confidence
              /\ last.result.confidence <= confidence_range[1]

\* C5 happens: a result was returned under a range that reaches beyond 1.0.
C5_Witness ==
    /\ TranscribeReturned
    /\ confidence_range[2] > 100
    /\ last.result.confidence <= 100

-----------------------------------------------------------------------------
(* Health reports                                                        *)

HealthConfigs ==
    { [language |-> "en"],
      [processing_delay |-> 0, simulate_health_issues |-> TRUE] }

HealthKwargs ==
    { [simulate_health_issues |-> TRUE], [simulate_health_issues |-> FALSE],
      [simulate_load_failure |-> TRUE], [simulate_load_failure |-> FALSE],
      [processing_delay |-> 0], [processing_delay |-> 100] }

InitHealth ==
    /\ InitModel(HealthConfigs)
    /\ IdleHandler
    /\ InitLoop

NextHealth ==
    \/ health_check
    \/ load_model
    \/ \E i \in 1..Len(pending) : load_model_resume(i)
    \/ unload_model
    \/ \E i \in 1..Len(pending) : unload_model_resume(i)
    \/ \E kwargs \in HealthKwargs : configure_mock_behavior(kwargs)
    \/ reset_to_defaults

SpecHealth == InitHealth /\ [][NextHealth]_vars

HealthChecked == last.op = "health_check"

\* C6 as stated: 'unhealthy' whenever Unloaded, 'healthy' whenever Loaded with no
\* degradation injected, 'degraded' only when injected; one of the three
\* statuses; the load state is as the call found it.
C6_AsStated ==
    HealthChecked =>
        /\ ~is_loaded => last.result.status = "unhealthy"
        /\ (is_loaded /\ ~simulate_health_issues) => last.result.status = "healthy"
        /\ last.result.status = "degraded" => simulate_health_issues
        /\ last.result.status \in {"healthy", "degraded", "unhealthy"}
        /\ last.result.loaded = is_loaded

\* C6, amended: 'degraded' exactly when degradation is injected, whatever the
\* load state; with none injected, 'unhealthy' when Unloaded and 'healthy' when
\* Loaded; the load state is as the call found it.
C6_HealthStatus ==
    HealthChecked =>
        /\ simulate_health_issues <=> last.result.status = "degraded"
        /\ (~is_loaded /\ ~simulate_health_issues) => last.result.status = "unhealthy"
        /\ (is_loaded /\ ~simulate_health_issues) => last.result.status = "healthy"
        /\ last.result.status \in {"healthy", "degraded", "unhealthy"}
        /\ last.result.loaded = is_loaded

\* C6 happens: an Unloaded model with degradation injected reported its health.
C6_Witness ==
    /\ HealthChecked
    /\ ~is_loaded
    /\ simulate_health_issues
    /\ last.result.status = "degraded"

-----------------------------------------------------------------------------
(* Selection of the canned response                                      *)

s_hi == <<"h", "i">>
s_yo == <<"y", "o">>
s_Hi == <<"H", "i">>
p_empty_long == <<"/", "t", "e", "s", "t", "/", "e", "m", "p", "t", "y", "_", "l", "o", "n", "g", ".", "w", "a", "v">>
p_SILENT == <<"/", "t", "e", "s", "t", "/", "S", "I", "L", "E", "N", "T", ".", "w", "a", "v">>
p_extended_hi == <<"/", "t", "e", "s", "t", "/", "e", "x", "t", "e", "n", "d", "e", "d", "_", "h", "i", ".", "w", "a", "v">>
p_Long == <<"/", "t", "e", "s", "t", "/", "L", "o", "n", "g", ".", "w", "a", "v">>
p_Hi == <<"/", "t", "e", "s", "t", "/", "H", "i", ".", "w", "a", "v">>
p_empty_dir == <<"/", "e", "m", "p", "t", "y", "/", "y", "o", ".", "w", "a", "v">>
p_yo_hi == <<"y", "o", "_", "h", "i", ".", "w", "a", "v">>

\* file paths: no pattern; two built-in patterns at once; patterns in upper
\* case; a built-in pattern with a custom key; a pattern in the directory only;
\* no directory and two custom keys
ResponsePaths ==
    {p_audio_wav, p_empty_long, p_SILENT, p_extended_hi, p_Long, p_Hi, p_empty_dir,
     p_yo_hi}

ResponseRequests == { [file_path |-> p, audio_format |-> s_wav] : p \in ResponsePaths }

\* keys a caller registers: plain ones, one with a capital, one that is the
\* key of a built-in response
ResponseKeys == {s_hi, s_yo, s_Hi, s_empty}

ResponseTexts == {"Custom A", "Custom B"}

\* no delay and one confidence for every result; with and without custom
\* responses given at construction
ResponseConfigs ==
    { [processing_delay |-> 0, confidence_range |-> <<90, 90>>],
      [processing_delay |-> 0, confidence_range |-> <<90, 90>>,
       custom_responses |-> << <<s_hi, "Custom A">> >>] }

ResponseKwargs ==
    { [custom_responses |-> << <<s_yo, "Custom B">>, <<s_hi, "Custom B">> >>] }

\* the number of custom responses registered at any one time
MaxCustom == 2

InitResponses ==
    /\ InitModel(ResponseConfigs)
    /\ IdleHandler
    /\ InitLoop

NextResponses ==
    \/ load_model
    \/ \E request \in ResponseRequests : transcribe(request)
    \/ \E key \in ResponseKeys, response \in ResponseTexts :
         /\ Len(DictSet(custom_responses, key, response)) <= MaxCustom
         /\ add_mock_response(key, response)
    \/ \E kwargs \in ResponseKwargs :
         /\ Len(DictUpdate(custom_responses, kwargs["custom_responses"])) <= MaxCustom
         /\ configure_mock_behavior(kwargs)
    \/ reset_to_defaults

SpecResponses == InitResponses /\ [][NextResponses]_vars

\* the name of the file of the request of the step just taken, lower-cased
RequestName ==
    LET path == Lower(last.request.file_path)
    IN  IF \E i \in 1..Len(path) : path[i] = "/"
        THEN SubSeq(path, (CHOOSE i \in 1..Len(path) :
                              path[i] = "/" /\ \A j \in (i + 1)..Len(path) : path[j] # "/") + 1,
                    Len(path))
        ELSE path

NameHas(pattern) == Contains(RequestName, pattern)

\* the registered custom keys that occur in the name as they were registered,
\* and those that occur in it when letter case is ignored
KeysInName == {k \in {custom_responses[i][1] : i \in 1..Len(custom_responses)} : NameHas(k)}

KeysInNameAnyCase ==
    {k \in {custom_responses[i][1] : i \in 1..Len(custom_responses)} : NameHas(Lower(k))}

\* the text registered under a custom key
CustomText(k) == custom_responses[CHOOSE i \in 1..Len(custom_responses) :
                                    custom_responses[i][1] = k][2]

\* the position of a custom key in the order of registration
KeyRank(k) == CHOOSE i \in 1..Len(custom_responses) : custom_responses[i][1] = k

\* the text the response table holds for a key: the custom one when a custom
\* response is registered under the key, else the built-in one
TableText(k) ==
    IF k \in {custom_responses[i][1] : i \in 1..Len(custom_responses)} THEN CustomText(k)
    ELSE IF k = s_empty THEN EmptyText
    ELSE IF k = s_long THEN LongText
    ELSE DefaultText

\* C7 as stated: 'empty'/'silent' in the name gives the empty string; otherwise
\* 'long'/'extended' gives the long paragraph; otherwise a registered custom key
\* in the name gives that key's text; otherwise the default sentence.
C7_AsStated ==
    TranscribeReturned =>
        IF NameHas(s_empty) \/ NameHas(s_silent) THEN last.result.text = EmptyText
        ELSE IF NameHas(s_long) \/ NameHas(s_extended) THEN last.result.text = LongText
        ELSE IF KeysInName # {} THEN \E k \in KeysInName : last.result.text = CustomText(k)
        ELSE last.result.text = DefaultText

\* C7, amended: the response key is 'empty' for 'empty'/'silent' in the
\* lower-cased name; otherwise 'long' for 'long'/'extended'; otherwise the
\* earliest registered custom key that occurs in the lower-cased name; otherwise
\* 'default'.  The text is what the response table holds for that key: the
\* built-in text, unless a custom response is registered under that very key.
C7_ResponseSelection ==
    TranscribeReturned =>
        /\ IF NameHas(s_empty) \/ NameHas(s_silent) THEN last.result.response_key = s_empty
           ELSE IF NameHas(s_long) \/ NameHas(s_extended)
                THEN last.result.response_key = s_long
           ELSE IF KeysInName # {}
                THEN /\ last.result.response_key \in KeysInName
                     /\ \A k \in KeysInName : KeyRank(last.result.response_key) <= KeyRank(k)
           ELSE last.result.response_key = s_default
        /\ last.result.text = TableText(last.result.response_key)

\* C7 happens: a name with a built-in pattern and a registered custom key in it
\* got the built-in response.
C7_Witness ==
    /\ TranscribeReturned
    /\ NameHas(s_extended)
    /\ KeysInName # {}
    /\ last.result.response_key = s_long
    /\ last.result.text = LongText

\* C8: patterns match whatever the letter case of the name and of the
\* registered key: with no built-in pattern in the name, a registered key that
\* occurs in the name when case is ignored gets its response selected.
C8_CaseInsensitive ==
    TranscribeReturned =>
        /\ (NameHas(s_empty) \/ NameHas(s_silent)) => last.result.response_key = s_empty
        /\ (~(NameHas(s_empty) \/ NameHas(s_silent))
              /\ (NameHas(s_long) \/ NameHas(s_extended)))
             => last.result.response_key = s_long
        /\ (~(NameHas(s_empty) \/ NameHas(s_silent))
              /\ ~(NameHas(s_long) \/ NameHas(s_extended))
              /\ KeysInNameAnyCase # {})
             => last.result.response_key \in KeysInNameAnyCase


-----------------------------------------------------------------------------
(* Conversion: convert_if_needed under registered files, registered      *)
(* conversions and injected failures                                     *)

p_clip_xyz == <<"/", "d", "a", "t", "a", "/", "c", "l", "i", "p", ".", "x", "y", "z">>
p_out_mp3 == <<"/", "o", "u", "t", "/", "a", ".", "m", "p", "3">>

\* a handler built without knobs, and one built to fail every conversion at once
ConvertConfigs ==
    { [simulate_file_not_found |-> FALSE],
      [conversion_delay |-> 0, simulate_conversion_error |-> TRUE] }

\* a path that exists by its "/test/" pattern, and one that exists only once
\* it is registered
ConvertPaths == {p_audio_wav, p_clip_xyz}

ConvertTargets == {s_wav, s_WAV, s_mp3, s_xyz}

\* the formats p_clip_xyz is registered with
ConvertFormats == {s_xyz, s_mp3}

ConvertKwargs ==
    { [simulate_file_not_found |-> TRUE], [simulate_file_not_found |-> FALSE],
      [simulate_format_detection_error |-> TRUE],
      [simulate_format_detection_error |-> FALSE],
      [simulate_conversion_error |-> TRUE], [simulate_conversion_error |-> FALSE],
      [conversion_delay |-> 0], [conversion_delay |-> 100] }

InitConvert ==
    /\ InitModel({[language |-> "en"]})
    /\ InitHandler(ConvertConfigs)
    /\ fs_files = {}
    /\ InitLoop

NextConvert ==
    \/ \E file_path \in ConvertPaths : \E target_format \in ConvertTargets :
         convert_if_needed(file_path, target_format)
    \/ \E i \in 1..Len(pending) : convert_if_needed_resume(i)
    \/ \E kwargs \in ConvertKwargs : handler_configure_mock_behavior(kwargs)
    \/ \E format_name \in ConvertFormats :
         add_mock_file(p_clip_xyz, format_name, EmptyDict)
    \/ add_mock_conversion(p_audio_wav, s_mp3, p_out_mp3)
    \/ reset_mock_state

SpecConvert == InitConvert /\ [][NextConvert]_vars

\* the latest step is a call of convert_if_needed (not the resumption of one);
\* the handler's state is the one the call ran in
ConvertCalled == last.op = "convert_if_needed" /\ ~last.delayed

\* the file of the latest call passes the not-found check
SourceExists == ~simulate_file_not_found /\ file_exists(last.request.file_path)

\* detect_format on the file of the latest call returns the call's target
\* format, letter case apart
DetectedIsTarget ==
    LET current_format == detect_format(last.request.file_path)
    IN  /\ current_format.outcome = "ok"
        /\ Lower(current_format.value) = Lower(last.request.target_format)

ReturnedSourcePath ==
    /\ last.outcome = "ok"
    /\ last.result.path = last.request.file_path

\* C9 as the specification states it: whenever detect_format(p) equals fmt
\* case-insensitively, convert_if_needed(p, fmt) returns p without suspending
C9_AsStated ==
    ConvertCalled /\ DetectedIsTarget => ReturnedSourcePath

\* C9: when detect_format(p) equals fmt case-insensitively, fmt is a supported
\* format and no conversion error is simulated, convert_if_needed(p, fmt)
\* returns p itself and reaches no suspension point
C9_RoundTrip ==
    ( /\ ConvertCalled
      /\ DetectedIsTarget
      /\ is_format_supported(last.request.target_format)
      /\ ~simulate_conversion_error )
    => ReturnedSourcePath

\* a call whose target differs from the detected format in letter case only,
\* made while a conversion delay is configured, returned its source path
C9_Witness ==
    /\ ConvertCalled
    /\ DetectedIsTarget
    /\ detect_format(last.request.file_path).value # last.request.target_format
    /\ is_format_supported(last.request.target_format)
    /\ ~simulate_conversion_error
    /\ conversion_delay > 0
    /\ ReturnedSourcePath

TargetRejected ==
    /\ last.outcome = "AudioFormatError"
    /\ last.result.message = "Target format not supported"
    /\ last.result.about = last.request.target_format
    /\ ~last.result.detected

\* C10 as the specification states it: for an existing source, an unsupported
\* target is rejected by an AudioFormatError that names the target, before
\* detection and delay; and a simulated conversion failure is an AudioFormatError
C10_AsStated ==
    ConvertCalled /\ SourceExists =>
        /\ ~is_format_supported(last.request.target_format) => TargetRejected
        /\ simulate_conversion_error => last.outcome = "AudioFormatError"

\* C10: for an existing source, a simulated conversion failure is an
\* AudioFormatError reporting the mock conversion error whatever the target;
\* when none is simulated, an unsupported target is rejected by an
\* AudioFormatError that names the target, before detection and delay
C10_UnsupportedTarget ==
    ConvertCalled /\ SourceExists =>
        /\ simulate_conversion_error =>
               /\ last.outcome = "AudioFormatError"
               /\ last.result.message = "Mock conversion error"
               /\ ~last.result.detected
        /\ ~simulate_conversion_error
             /\ ~is_format_supported(last.request.target_format) => TargetRejected

\* an unsupported target was rejected while a detection error was simulated
\* and a conversion delay configured
C10_Witness ==
    /\ ConvertCalled
    /\ SourceExists
    /\ ~simulate_conversion_error
    /\ ~is_format_supported(last.request.target_format)
    /\ simulate_format_detection_error
    /\ conversion_delay > 0
    /\ TargetRejected

\* the latest step is a convert_if_needed call that returned after converting:
\* it slept, or the detected format is not the target
Converted ==
    /\ last.op = "convert_if_needed"
    /\ last.outcome = "ok"
    /\ \/ last.delayed
       \/ ~DetectedIsTarget

\* the key under which add_mock_conversion keeps a path for the request
RequestConversionKey ==
    last.request.file_path \o <<"-", ">">> \o last.request.target_format

\* '<p without its extension>_converted.<t>'
DerivedPath ==
    splitext(last.request.file_path)[1]
        \o <<"_", "c", "o", "n", "v", "e", "r", "t", "e", "d", ".">>
        \o last.request.target_format

\* C24: a convert_if_needed call that converts returns the path registered by
\* add_mock_conversion for its source and target if there is one, otherwise the
\* path derived from the source without its extension, "_converted." and the
\* target as given; the derived path is a function of the two arguments alone
\* and differs from the source path.
C24_ConversionOutputPath ==
    Converted =>
        /\ DictHas(mock_conversions, RequestConversionKey)
             => last.result.path = DictAt(mock_conversions, RequestConversionKey)
        /\ ~DictHas(mock_conversions, RequestConversionKey)
             => /\ last.result.path = DerivedPath
                /\ last.result.path # last.request.file_path

\* C24 happens: a file registered as mp3 was converted to "WAV" after the
\* delay and got the derived path, while another conversion is registered.
C24_Witness ==
    /\ Converted
    /\ last.delayed
    /\ mock_conversions # EmptyDict
    /\ ~DictHas(mock_conversions, RequestConversionKey)
    /\ last.request.target_format = s_WAV
    /\ last.result.path = DerivedPath
-----------------------------------------------------------------------------
(* The handler's queries: detect_format, validate_format,                *)
(* get_audio_metadata and convert_if_needed under registered files and   *)
(* injected failures                                                     *)

p_audio_MP3 == <<"/", "t", "e", "s", "t", "/", "a", "u", "d", "i", "o", ".", "M", "P", "3">>

\* handlers that convert without delay, one of them built to fail conversions
HandlerConfigs ==
    { [conversion_delay |-> 0],
      [conversion_delay |-> 0, simulate_conversion_error |-> TRUE] }

\* two paths that exist by their "/test/" pattern, one of them with an
\* upper-case extension, and one that exists when it is registered or on disk
HandlerPaths == {p_audio_wav, p_audio_MP3, p_clip_xyz}

HandlerExpected == {None, s_WAV, s_mp3}

HandlerTargets == {s_wav, s_xyz}

\* metadata registered for a file, its format not the one registered with it
OtherMetadata == << <<"format", s_flac>>, <<"channels", 1>> >>

\* the files registered: path, format, metadata
HandlerFiles ==
    { <<p_clip_xyz, s_xyz, EmptyDict>>, <<p_clip_xyz, s_mp3, EmptyDict>>,
      <<p_audio_wav, s_mp3, OtherMetadata>> }

HandlerKwargs ==
    { [simulate_file_not_found |-> TRUE], [simulate_file_not_found |-> FALSE],
      [simulate_format_detection_error |-> TRUE],
      [simulate_format_detection_error |-> FALSE],
      [simulate_metadata_error |-> TRUE], [simulate_metadata_error |-> FALSE] }

InitQueries ==
    /\ InitModel({[language |-> "en"]})
    /\ InitHandler(HandlerConfigs)
    /\ fs_files \in {{}, {p_clip_xyz}}
    /\ InitLoop

NextQueries ==
    \/ \E file_path \in HandlerPaths : call_detect_format(file_path)
    \/ \E file_path \in HandlerPaths : \E expected_format \in HandlerExpected :
         call_validate_format(file_path, expected_format)
    \/ \E file_path \in HandlerPaths : call_get_audio_metadata(file_path)
    \/ \E file_path \in HandlerPaths : \E target_format \in HandlerTargets :
         convert_if_needed(file_path, target_format)
    \/ \E kwargs \in HandlerKwargs : handler_configure_mock_behavior(kwargs)
    \/ \E file \in HandlerFiles : add_mock_file(file[1], file[2], file[3])

SpecQueries == InitQueries /\ [][NextQueries]_vars

\* the latest step is a call of one of the four operations that take a path
PathQueried ==
    /\ last.op \in {"detect_format", "validate_format", "get_audio_metadata",
                    "convert_if_needed"}
    /\ ~last.delayed

\* the file of the latest call fails the not-found check
SourceMissing == simulate_file_not_found \/ ~file_exists(last.request.file_path)

\* C11: detect_format, validate_format, get_audio_metadata and convert_if_needed
\* fail with FileNotFoundError whenever the file does not exist by the handler's
\* existence check or simulate_file_not_found is set, whatever other failure is
\* simulated, whatever is registered for the path and whatever format is asked.
C11_NotFoundFirst ==
    PathQueried /\ SourceMissing => last.outcome = "FileNotFoundError"

\* C11 happens: get_audio_metadata raised FileNotFoundError for a file that is
\* registered with metadata, with the metadata error simulated as well.
C11_Witness ==
    /\ last.op = "get_audio_metadata"
    /\ last.outcome = "FileNotFoundError"
    /\ simulate_file_not_found
    /\ simulate_metadata_error
    /\ simulate_format_detection_error
    /\ DictHas(mock_metadata, last.request.file_path)
\* the extension of the file of the latest call, lower-cased and without its
\* dot; empty when the name has none
RequestExtension ==
    LET ext == splitext(last.request.file_path)[2]
    IN  IF ext = << >> THEN << >> ELSE Lower(Tail(ext))

\* C12: for an existing file with no detection error simulated, detect_format
\* returns the format registered for the path if there is one; otherwise the
\* lower-cased extension if it is a supported format; otherwise 'wav'.
C12_DetectionPrecedence ==
    ( /\ last.op = "detect_format"
      /\ ~SourceMissing
      /\ ~simulate_format_detection_error )
    => /\ last.outcome = "ok"
       /\ last.result.value =
            IF DictHas(mock_file_formats, last.request.file_path)
            THEN DictAt(mock_file_formats, last.request.file_path)
            ELSE IF RequestExtension # << >> /\ is_format_supported(RequestExtension)
            THEN RequestExtension
            ELSE s_wav

\* C12 happens: detect_format returned a registered format that is not the
\* extension's, for a file whose extension is a supported format.
C12_Witness ==
    /\ last.op = "detect_format"
    /\ last.outcome = "ok"
    /\ DictHas(mock_file_formats, last.request.file_path)
    /\ is_format_supported(RequestExtension)
    /\ last.result.value # RequestExtension
    /\ last.result.value = DictAt(mock_file_formats, last.request.file_path)
MetadataQueried == last.op = "get_audio_metadata"

\* what detect_format gives for the queried path in the state of the call
DetectedNow == detect_format(last.request.file_path)

\* the 'format' field of the returned metadata is the detected format
FormatIsDetected ==
    /\ DictHas(last.result.value, "format")
    /\ DictAt(last.result.value, "format") = DetectedNow.value

\* C19 as stated: whenever get_audio_metadata and detect_format both succeed
\* in one handler state the 'format' field equals the detected format, and
\* whenever detection fails get_audio_metadata fails the same way.
C19_AsStated ==
    MetadataQueried =>
        /\ (last.outcome = "ok" /\ DetectedNow.outcome = "ok") => FormatIsDetected
        /\ DetectedNow.outcome # "ok" => last.outcome = DetectedNow.outcome

\* C19: get_audio_metadata fails with not-found exactly when detect_format
\* does; otherwise it fails with AudioFormatError when the metadata error is
\* simulated; otherwise it returns the metadata registered for the path as
\* registered, whatever detection gives; and for a path with no registered
\* metadata it fails as detect_format fails, or returns metadata whose 'format'
\* is the detected format.
C19_MetadataFollowsDetection ==
    MetadataQueried =>
        /\ (last.outcome = "FileNotFoundError")
             <=> (DetectedNow.outcome = "FileNotFoundError")
        /\ (~SourceMissing /\ simulate_metadata_error)
             => /\ last.outcome = "AudioFormatError"
                /\ last.result.message = "Mock metadata extraction error"
        /\ ( /\ ~SourceMissing
             /\ ~simulate_metadata_error
             /\ DictHas(mock_metadata, last.request.file_path) )
             => /\ last.outcome = "ok"
                /\ last.result.value = DictAt(mock_metadata, last.request.file_path)
        /\ ( /\ ~SourceMissing
             /\ ~simulate_metadata_error
             /\ ~DictHas(mock_metadata, last.request.file_path) )
             => /\ last.outcome = DetectedNow.outcome
                /\ last.result.message = DetectedNow.message
                /\ last.outcome = "ok" => FormatIsDetected

\* C19 happens: metadata was generated for a path whose registered format is
\* not the one its extension names.
C19_Witness ==
    /\ MetadataQueried
    /\ last.outcome = "ok"
    /\ ~DictHas(mock_metadata, last.request.file_path)
    /\ DictHas(mock_file_formats, last.request.file_path)
    /\ DictAt(mock_file_formats, last.request.file_path)
         # RequestExtension
    /\ FormatIsDetected
-----------------------------------------------------------------------------
(* get_conversion_info over the formats in several letter cases          *)

s_Mp3 == <<"M", "p", "3">>
s_FLAC == <<"F", "L", "A", "C">>
s_OGG == <<"O", "G", "G">>
s_M4A == <<"M", "4", "A">>
s_MP4 == <<"M", "P", "4">>

\* the six formats as the handler lists them and in other letter cases, and a
\* format the handler does not list
InfoFormats ==
    {s_wav, s_mp3, s_mp4, s_m4a, s_flac, s_ogg,
     s_WAV, s_Mp3, s_MP4, s_M4A, s_FLAC, s_OGG, s_xyz}

InitInfo ==
    /\ InitModel({[language |-> "en"]})
    /\ IdleHandler
    /\ InitLoop

NextInfo ==
    \E source_format \in InfoFormats : \E target_format \in InfoFormats :
        call_get_conversion_info(source_format, target_format)

SpecInfo == InitInfo /\ [][NextInfo]_vars

InfoSource == Lower(last.request.source_format)

InfoTarget == Lower(last.request.target_format)

\* the six formats, and how the specification sorts them
ListedFormats == {s_wav, s_mp3, s_mp4, s_m4a, s_flac, s_ogg}

Lossless == {s_wav, s_flac}

Lossy == {s_mp3, s_m4a, s_ogg}

\* C14: for formats among the six in any letter case, needed is true iff the
\* formats differ when case is ignored; supported is true iff both are
\* supported; quality_loss is true iff conversion is needed and the source is
\* lossless and the target lossy, or both are lossy and distinct;
\* estimated_time is 1.5 if needed, else 0.1.
C14_ConversionInfo ==
    ( /\ last.op = "get_conversion_info"
      /\ InfoSource \in ListedFormats
      /\ InfoTarget \in ListedFormats )
    => LET info == last.result.value
           needed == InfoSource # InfoTarget
       IN  /\ info.needed = needed
           /\ info.supported = TRUE
           /\ info.quality_loss =
                ( /\ needed
                  /\ \/ InfoSource \in Lossless /\ InfoTarget \in Lossy
                     \/ InfoSource \in Lossy /\ InfoTarget \in Lossy
                        /\ InfoSource # InfoTarget )
           /\ info.estimated_time = IF needed THEN 15 ELSE 1

\* C14 happens: the same format in two letter cases needs no conversion and
\* reports no loss.
C14_Witness ==
    /\ last.op = "get_conversion_info"
    /\ InfoSource \in Lossy
    /\ InfoSource = InfoTarget
    /\ last.request.source_format # last.request.target_format
    /\ ~last.result.value.needed
    /\ ~last.result.value.quality_loss
    /\ last.result.value.estimated_time = 1
-----------------------------------------------------------------------------
(* validate_audio_request under registered files and injected failures   *)

\* requests as AudioRequest builds them, and requests whose audio_format was
\* assigned an unsupported format after construction
ValidatedRequests ==
    { [file_path |-> file_path, audio_format |-> audio_format] :
        file_path \in {p_audio_wav, p_clip_xyz},
        audio_format \in {s_WAV, s_mp3, s_xyz} }

\* the formats p_clip_xyz is registered with
ValidatedFormats == {s_mp3, s_xyz}

ValidatedKwargs ==
    { [simulate_file_not_found |-> TRUE], [simulate_file_not_found |-> FALSE],
      [simulate_format_detection_error |-> TRUE],
      [simulate_format_detection_error |-> FALSE] }

InitRequests ==
    /\ InitModel({[language |-> "en"]})
    /\ InitHandler({[simulate_file_not_found |-> FALSE]})
    /\ fs_files \in {{}, {p_audio_wav}}
    /\ InitLoop

NextRequests ==
    \/ \E request \in ValidatedRequests : call_validate_audio_request(request)
    \/ \E request \in ValidatedRequests :
         call_AudioFormatHandler_validate_audio_request(request)
    \/ \E kwargs \in ValidatedKwargs : handler_configure_mock_behavior(kwargs)
    \/ \E format_name \in ValidatedFormats :
         add_mock_file(p_clip_xyz, format_name, EmptyDict)
    \/ reset_mock_state

SpecRequests == InitRequests /\ [][NextRequests]_vars

\* the latest step is a call of validate_audio_request, of the mock or of the
\* interface
RequestValidated ==
    last.op \in {"validate_audio_request", "AudioFormatHandler.validate_audio_request"}

\* the file of the request is there for the method called
RequestFileExists ==
    IF last.op = "validate_audio_request"
    THEN file_exists(last.request.file_path)
    ELSE os_path_exists(last.request.file_path)

\* detection succeeds on the file of the request and gives a format other
\* than the declared one, letter case apart
DetectedDiffers ==
    LET detected_format == detect_format(last.request.file_path)
    IN  /\ detected_format.outcome = "ok"
        /\ Lower(detected_format.value) # Lower(last.request.audio_format)

\* C15: validate_audio_request fails with AudioFormatError when the file
\* exists, the declared format is supported and the detected format differs
\* from the declared one.
C15_MismatchIsAudioFormatError ==
    ( /\ RequestValidated
      /\ RequestFileExists
      /\ is_format_supported(last.request.audio_format)
      /\ DetectedDiffers )
    => last.outcome = "AudioFormatError"

\* the latest step is a call of the mock's validate_audio_request on a file
\* that passes its existence check
MockValidatedExisting ==
    /\ last.op = "validate_audio_request"
    /\ file_exists(last.request.file_path)

\* the call ran detect_format and detect_format raised
DetectionFailed ==
    /\ last.result.ended.detected
    /\ detect_format(last.request.file_path).outcome # "ok"

MismatchWrapped ==
    /\ last.outcome = "ValidationError"
    /\ last.result.ended.caught = "AudioFormatError"
    /\ last.result.ended.caught_message = "File format mismatch"

\* C16 as stated: the mock's validate_audio_request raises ValidationError
\* carrying 'File format mismatch' when the file exists and the detected format
\* differs from the declared one; a failure of detection is a ValidationError.
C16_AsStated ==
    MockValidatedExisting =>
        /\ DetectedDiffers => MismatchWrapped
        /\ DetectionFailed => last.outcome = "ValidationError"

\* C16: when the file exists and the declared format is supported, the mock's
\* validate_audio_request raises ValidationError carrying 'File format mismatch'
\* if the detected format differs from the declared one, and ValidationError
\* carrying the failure of detection if detection fails.
C16_MismatchIsValidationError ==
    (MockValidatedExisting /\ is_format_supported(last.request.audio_format)) =>
        /\ DetectedDiffers => MismatchWrapped
        /\ detect_format(last.request.file_path).outcome # "ok"
             => /\ last.outcome = "ValidationError"
                /\ last.result.ended.caught =
                     detect_format(last.request.file_path).outcome

\* C16 happens: a supported declared format that differs from the registered
\* one was refused with the wrapped mismatch.
C16_Witness ==
    /\ MockValidatedExisting
    /\ is_format_supported(last.request.audio_format)
    /\ DictHas(mock_file_formats, last.request.file_path)
    /\ DetectedDiffers
    /\ MismatchWrapped

-----------------------------------------------------------------------------
(* get_supported_formats and the lists it hands out                      *)

FormatsAsked == {s_wav, s_Mp3, s_xyz}

InitFormats ==
    /\ InitModel({[language |-> "en"]})
    /\ IdleHandler
    /\ InitLoop

NextFormats ==
    \/ call_get_supported_formats
    \/ call_AudioFormatHandler_get_supported_formats
    \/ \E format_name \in FormatsAsked : call_is_format_supported(format_name)
    \/ \E i \in 1..MaxHeld : caller_list_append(i, s_xyz)
    \/ \E i \in 1..MaxHeld : caller_list_remove(i, s_wav)
    \/ \E i \in 1..MaxHeld : caller_list_clear(i)

SpecFormats == InitFormats /\ [][NextFormats]_vars

\* a list the caller holds no longer has the elements it was returned with
SomeHeldListChanged ==
    \E i \in DOMAIN held : held_list(i) # SUPPORTED_FORMATS

\* C18: get_supported_formats() of the handler and of the mock model returns a
\* list that is no list handed out before nor the internal one; whatever the
\* caller did to the lists returned earlier, a call returns exactly wav, mp3,
\* mp4, m4a, flac, ogg in this order, and is_format_supported answers as it
\* does for these six formats.
C18_FormatsInvariant ==
    /\ last.op \in {"get_supported_formats",
                    "AudioFormatHandler.get_supported_formats"}
         => /\ last.result.value = <<s_wav, s_mp3, s_mp4, s_m4a, s_flac, s_ogg>>
            /\ ~held[Len(held)].shared
    /\ last.op = "is_format_supported"
         => last.result.value =
              (Lower(last.request.format_name)
                 \in {s_wav, s_mp3, s_mp4, s_m4a, s_flac, s_ogg})

\* C18 happens: the caller changed a list returned earlier, and the call that
\* followed returned the six formats in a list of its own.
C18_Witness ==
    /\ Len(held) = MaxHeld
    /\ SomeHeldListChanged
    /\ last.op \in {"get_supported_formats",
                    "AudioFormatHandler.get_supported_formats"}
    /\ last.result.value = <<s_wav, s_mp3, s_mp4, s_m4a, s_flac, s_ogg>>
    /\ held_list(Len(held)) = last.result.value
-----------------------------------------------------------------------------
(* The construction of an AudioRequest                                   *)

p_blank == <<" ">>

RequestPaths == {<< >>, p_blank, p_audio_wav, p_clip_xyz}

RequestFormats ==
    {s_wav, s_mp3, s_mp4, s_m4a, s_flac, s_ogg,
     s_WAV, s_Mp3, s_MP4, s_M4A, s_FLAC, s_OGG, s_xyz, << >>}

RequestOutputs == {s_text, s_json, s_JSON, s_xml, << >>}

InitConstruction ==
    /\ InitModel({[language |-> "en"]})
    /\ IdleHandler
    /\ InitLoop

NextConstruction ==
    \E file_path \in RequestPaths : \E audio_format \in RequestFormats :
        \E output_format \in RequestOutputs :
            AudioRequest(file_path, audio_format, output_format)

SpecConstruction == InitConstruction /\ [][NextConstruction]_vars

\* the three conditions on the arguments of the construction
ArgumentsValid ==
    /\ last.request.file_path # << >>
    /\ Lower(last.request.audio_format) \in {s_wav, s_mp3, s_mp4, s_m4a, s_flac, s_ogg}
    /\ last.request.output_format \in {s_text, s_json}

\* C20: constructing an AudioRequest succeeds exactly when file_path is not
\* empty, audio_format is one of wav, mp3, mp4, m4a, flac, ogg in any letter
\* case and output_format is text or json; otherwise it fails with ValueError
\* and gives no object; a constructed AudioRequest has the fields it was given.
C20_ConstructionValidated ==
    last.op = "AudioRequest" =>
        /\ (last.outcome = "ok") <=> ArgumentsValid
        /\ last.outcome # "ok"
             => /\ last.outcome = "ValueError"
                /\ ~last.result.built
        /\ last.outcome = "ok"
             => /\ last.result.built
                /\ last.result.value = last.request

\* C20 happens: a request with an upper-case format and output json was built.
C20_Witness ==
    /\ last.op = "AudioRequest"
    /\ last.outcome = "ok"
    /\ last.result.built
    /\ last.result.value.audio_format = s_WAV
    /\ last.result.value.output_format = s_json
    /\ last.result.value.file_path = p_blank
-----------------------------------------------------------------------------
(* reset_to_defaults after run-time reconfiguration                      *)

\* the custom responses a construction config carries
GivenResponses == << <<s_hi, "Custom A">> >>

\* a config with no knobs, and one that sets every knob and carries custom
\* responses
ResetConfigs ==
    { [language |-> "en"],
      [processing_delay |-> 0, error_rate |-> 50, confidence_range |-> <<80, 90>>,
       simulate_load_failure |-> TRUE, simulate_health_issues |-> TRUE,
       custom_responses |-> GivenResponses] }

ResetKwargs ==
    { [processing_delay |-> 100, error_rate |-> 80], [confidence_range |-> <<10, 20>>],
      [simulate_load_failure |-> FALSE, simulate_health_issues |-> FALSE],
      [simulate_load_failure |-> TRUE], [simulate_health_issues |-> TRUE],
      [custom_responses |-> << <<s_yo, "Custom B">> >>] }

ResetKeys == {s_hi, s_yo, s_empty}

InitReset ==
    /\ InitModel(ResetConfigs)
    /\ IdleHandler
    /\ InitLoop

NextReset ==
    \/ \E kwargs \in ResetKwargs : configure_mock_behavior(kwargs)
    \/ \E key \in ResetKeys : add_mock_response(key, "Custom B")
    \/ reset_to_defaults

SpecReset == InitReset /\ [][NextReset]_vars

\* the config as it was given to the constructor
ConstructionConfig ==
    IF "custom_responses" \in DOMAIN parameters
    THEN [parameters EXCEPT !["custom_responses"] = GivenResponses]
    ELSE parameters

\* C25: after reset_to_defaults, processing_delay, error_rate,
\* confidence_range and the two simulate flags are those of the construction
\* config, and the response table holds the three built-in responses and the
\* custom responses given at construction and nothing added since.
C25_ResetRestoresConstruction ==
    last.op = "reset_to_defaults" =>
        /\ processing_delay =
             ParamGet(ConstructionConfig, "processing_delay", DefaultProcessingDelay)
        /\ error_rate = ParamGet(ConstructionConfig, "error_rate", DefaultErrorRate)
        /\ confidence_range =
             ParamGet(ConstructionConfig, "confidence_range", DefaultConfidenceRange)
        /\ simulate_load_failure =
             ParamGet(ConstructionConfig, "simulate_load_failure", FALSE)
        /\ simulate_health_issues =
             ParamGet(ConstructionConfig, "simulate_health_issues", FALSE)
        /\ mock_responses =
             DictUpdate(BuiltinResponses,
                        ParamGet(ConstructionConfig, "custom_responses", EmptyDict))
-----------------------------------------------------------------------------
(* Calls in flight together: transcribe, load_model and unload_model     *)
(* suspended at their delays and resumed in any order                    *)

\* a model whose calls all suspend and whose transcriptions never fail at random
RaceConfigs == { [processing_delay |-> 100, error_rate |-> 0,
                  confidence_range |-> <<90, 90>>] }

InitRace ==
    /\ InitModel(RaceConfigs)
    /\ IdleHandler
    /\ InitLoop

NextRace ==
    \/ \E request \in LifecycleRequests : transcribe(request)
    \/ \E i \in 1..Len(pending) : transcribe_resume(i)
    \/ load_model
    \/ \E i \in 1..Len(pending) : load_model_resume(i)
    \/ unload_model
    \/ \E i \in 1..Len(pending) : unload_model_resume(i)

SpecRace == InitRace /\ [][NextRace]_vars

\* C26 as stated: a transcribe call returns a TranscriptionResult only if the
\* model is Loaded at the moment the call returns.
C26_AsStated ==
    (last.op = "transcribe" /\ last.outcome = "ok") => is_loaded

\* C26: a transcribe call goes past its load check, to return at once or to
\* suspend at its delay, only if the model is Loaded at that moment, and a call
\* that returns after the delay is one that was suspended so; the load state is
\* not looked at again when the call returns.
C26_LoadedWhenCalled ==
    /\ []((/\ last.op = "transcribe"
           /\ ~last.delayed
           /\ last.outcome \in {"ok", "suspended", "TranscriptionError"})
          => is_loaded)
    /\ [][(last'.op = "transcribe" /\ last'.delayed)
          => \E i \in 1..Len(pending) :
                 /\ pending[i].op = "transcribe"
                 /\ pending[i].request = last'.request
                 /\ pending' = RemoveAt(pending, i)]_vars

\* C26 happens: a transcription returned its result after the delay on a
\* model that was unloaded meanwhile.
C26_Witness ==
    /\ last.op = "transcribe"
    /\ last.delayed
    /\ last.outcome = "ok"
    /\ ~is_loaded

\* no load_model or unload_model call is in flight
NoneInFlight(calls) ==
    \A k \in 1..Len(calls) : calls[k].op \notin {"load_model", "unload_model"}

\* a load_model call completes right after an unload_model call that was
\* started while the load was in flight
LoadCompletesLast ==
    /\ last.op = "unload_model" /\ last.delayed
    /\ "load_model" \in last.result.earlier
    /\ last'.op = "load_model" /\ last'.delayed
    /\ NoneInFlight(pending')

\* an unload_model call completes right after the load_model call it was
\* started after
UnloadCompletesLast ==
    /\ last.op = "load_model" /\ last.delayed
    /\ "unload_model" \in last.result.later
    /\ last'.op = "unload_model" /\ last'.delayed
    /\ NoneInFlight(pending')

\* C27 as stated: when an unload_model call is started after a load_model
\* call and both have completed, with no other load or unload call, the model
\* is Unloaded, in whichever order the two completed.
C27_AsStated ==
    [][(LoadCompletesLast \/ UnloadCompletesLast) => ~is_loaded']_vars

\* C27: when an unload_model call is started after a load_model call and both
\* have completed, with no other load or unload call, the model is in the state
\* the call that completed last has set: Unloaded when the unload completed
\* last, Loaded when the load did.
C27_LastCompletedWins ==
    /\ [][UnloadCompletesLast => ~is_loaded']_vars
    /\ [][LoadCompletesLast => is_loaded']_vars

\* C27 happens: the unload started second has completed first, and the load
\* it overtook is the one call left to complete.
C27_Witness ==
    /\ last.op = "unload_model" /\ last.delayed
    /\ "load_model" \in last.result.earlier
    /\ Len(pending) = 1
    /\ pending[1].op = "load_model"
    /\ ~is_loaded
-----------------------------------------------------------------------------
(* Every operation of the model, and what it does to the load state      *)

\* a model whose calls suspend, and one whose calls return at once
FrameConfigs == { [processing_delay |-> 100, error_rate |-> 0],
                  [processing_delay |-> 0, error_rate |-> 100] }

FrameRequests == { [file_path |-> p_audio_wav, audio_format |-> f] : f \in {s_WAV, s_xyz} }

FrameKwargs == { [simulate_load_failure |-> TRUE], [simulate_load_failure |-> FALSE],
                 [simulate_health_issues |-> TRUE] }

InitFrame ==
    /\ InitModel(FrameConfigs)
    /\ IdleHandler
    /\ InitLoop

NextFrame ==
    \/ \E request \in FrameRequests : transcribe(request)
    \/ \E i \in 1..Len(pending) : transcribe_resume(i)
    \/ load_model
    \/ \E i \in 1..Len(pending) : load_model_resume(i)
    \/ unload_model
    \/ \E i \in 1..Len(pending) : unload_model_resume(i)
    \/ \E request \in FrameRequests : call_validate_request(request)
    \/ health_check
    \/ get_model_info
    \/ call_get_supported_formats
    \/ \E kwargs \in FrameKwargs : configure_mock_behavior(kwargs)
    \/ add_mock_response(s_hi, "Custom A")
    \/ reset_to_defaults

SpecFrame == InitFrame /\ [][NextFrame]_vars

\* C28: is_loaded changes only in a step that completes a load_model call
\* successfully, to true, or completes an unload_model call, to false; a
\* load_model call that fails, a call that suspends and every other operation
\* leave it as it is.
C28_LoadStateFrame ==
    [][is_loaded' # is_loaded
         => \/ /\ last'.op = "load_model"
               /\ last'.outcome = "ok"
               /\ is_loaded'
            \/ /\ last'.op = "unload_model"
               /\ last'.outcome = "ok"
               /\ ~is_loaded']_vars

\* C28 happens: a load_model call has failed on a Loaded model and the model
\* is still Loaded.
C28_Witness ==
    /\ last.op = "load_model"
    /\ last.outcome = "ModelLoadError"
    /\ last.result.loaded_before
    /\ is_loaded
-----------------------------------------------------------------------------
(* The error rate, by each way of supplying it                            *)

\* error rates given in the config: inside, at the ends of and outside 0..100
RateConfigs == { [processing_delay |-> 0, error_rate |-> r] : r \in {0 - 50, 0, 50, 100, 150} }

RateKwargs == { [error_rate |-> r] : r \in {0 - 50, 0, 100, 150} }

RateRequests == { [file_path |-> p_audio_wav, audio_format |-> f] : f \in {s_WAV, s_xyz} }

InitRate ==
    /\ InitModel(RateConfigs)
    /\ IdleHandler
    /\ InitLoop

NextRate ==
    \/ load_model
    \/ \E request \in RateRequests : transcribe(request)
    \/ \E kwargs \in RateKwargs : configure_mock_behavior(kwargs)
    \/ reset_to_defaults

SpecRate == InitRate /\ [][NextRate]_vars

\* a transcribe call on a Loaded model with a supported format has ended
TranscribeEnded ==
    /\ last.op = "transcribe"
    /\ is_loaded
    /\ RequestFormatListed

\* C30: in every reachable state error_rate lies in 0..100 (percent),
\* however it was supplied; with error_rate 0 no transcribe call on a Loaded
\* model with a supported format fails with TranscriptionError, with 100
\* every such call does.
C30_ErrorRateBounded ==
    /\ error_rate >= 0
    /\ error_rate <= 100
    /\ (TranscribeEnded /\ error_rate = 0) => last.outcome # "TranscriptionError"
    /\ (TranscribeEnded /\ error_rate = 100) => last.outcome = "TranscriptionError"
-----------------------------------------------------------------------------
(* The mapping get_model_info() returns, in the hands of its caller       *)

InfoDictConfigs == { [processing_delay |-> 0, error_rate |-> 0] }

InfoDictRequests == { [file_path |-> p_audio_wav, audio_format |-> f] : f \in {s_WAV, s_mp3, s_xyz} }

InitInfoDict ==
    /\ InitModel(InfoDictConfigs)
    /\ IdleHandler
    /\ InitLoop

NextInfoDict ==
    \/ load_model
    \/ get_model_info
    \/ call_get_supported_formats
    \/ \E i \in 1..Len(held) : caller_list_remove(i, s_wav)
    \/ \E i \in 1..Len(held) : caller_list_append(i, s_xyz)
    \/ \E request \in InfoDictRequests : transcribe(request)
    \/ \E request \in InfoDictRequests : call_validate_request(request)

SpecInfoDict == InitInfoDict /\ [][NextInfoDict]_vars

\* a format check of the model has run: validate_request, by itself or within
\* transcribe, on a Loaded model
FormatChecked ==
    /\ last.op \in {"transcribe", "validate_request"}
    /\ is_loaded

\* C29: whatever the caller does to the 'supported_formats' entry of a
\* mapping get_model_info() returned, get_supported_formats() returns the
\* six formats of the model, and transcribe and validate_request reject a
\* request for its format exactly when the format is none of the six.
C29_InfoIndependent ==
    /\ last.op = "get_supported_formats" => last.result.value = ModelFormats
    /\ FormatChecked =>
           (last.outcome = "AudioFormatError"
                <=> ~InList(Lower(last.request.audio_format), ModelFormats))
-----------------------------------------------------------------------------
(* The audio format service: main.py                                      *)

HTTP_200_OK == 200

HTTP_400_BAD_REQUEST == 400

HTTP_500_INTERNAL_SERVER_ERROR == 500

HTTP_503_SERVICE_UNAVAILABLE == 503

\* the requests of the service in flight at a time
MaxInFlight == 1

\* the temporary files one run may create
MaxTemp == 2

s_tmp == <<"/", "t", "m", "p", "/", "t", "m", "p">>

s_random == <<"a", "b", "c", "d", "e", "f", "g", "h", "i">>

s_underscore == <<"_">>

s_unknown == <<"u", "n", "k", "n", "o", "w", "n">>

name_audio_wav == <<"a", "u", "d", "i", "o", ".", "w", "a", "v">>

\* tempfile.NamedTemporaryFile(delete=False, suffix=f"_{file.filename}"): the
\* names it may give, each with its own random part
temp_file_names(filename) ==
    { s_tmp \o <<s_random[k]>> \o s_underscore \o filename : k \in 1..MaxTemp }

\* the exceptions the endpoints catch by name
DomainErrors == {"AudioFormatError", "ValidationError"}

\* what a handler of another class than the mock may raise from a method
InjectedRaised ==
    { Raised(kind, "raised by the handler", << >>, FALSE) :
          kind \in DomainErrors \cup {"FileNotFoundError", "RuntimeError"} }

\* handler.validate_format(temp_file_path, expected_format): the mock's result,
\* or any result of a handler of another class
handler_validate_format(file_path, expected_format) ==
    IF audio_handler = "MockAudioFormatHandler"
    THEN {validate_format(file_path, expected_format)}
    ELSE {Returned(TRUE, TRUE), Returned(FALSE, TRUE)} \cup InjectedRaised

\* handler.detect_format(temp_file_path)
handler_detect_format(file_path) ==
    IF audio_handler = "MockAudioFormatHandler"
    THEN {detect_format(file_path)}
    ELSE {Returned(s_wav, TRUE), Returned(s_mp3, TRUE)} \cup InjectedRaised

\* handler.get_audio_metadata(temp_file_path)
handler_get_audio_metadata(file_path) ==
    IF audio_handler = "MockAudioFormatHandler"
    THEN {get_audio_metadata(file_path)}
    ELSE {Returned(generated_metadata(file_path, s_wav), TRUE)} \cup InjectedRaised

\* await handler.convert_if_needed(temp_file_path, target_format), up to the
\* mock's conversion delay
handler_convert_if_needed(file_path, target_format) ==
    IF audio_handler = "MockAudioFormatHandler"
    THEN {convert_if_needed_begin(file_path, target_format)}
    ELSE {Returned(file_path, TRUE)} \cup InjectedRaised

\* a response: its status code, the fields of its body the endpoints decide,
\* the exception of the handler it answers ("none" without one), the methods
\* of the handler the request called, and the temporary file of the request
Response(status_code, body, raised, called, temp_file_path) ==
    [kind |-> "response", status_code |-> status_code, body |-> body,
     raised |-> raised, called |-> called, temp_file_path |-> temp_file_path]

NoBody == [detail |-> "error"]

\* the request of an upload endpoint: file.filename and the two parameters
Upload(filename, expected_format, target_format) ==
    [filename |-> filename, expected_format |-> expected_format,
     target_format |-> target_format]

NoUpload == Upload(<< >>, None, << >>)

\* get_audio_handler() handing out whatever the slot holds
get_audio_handler_passes == FALSE

\* get_audio_handler(), the dependency of /formats and of the upload
\* endpoints: TRUE when it raises the HTTPException
get_audio_handler == audio_handler = "None"

\* the answer to a request whose dependency raised: 503, no handler called
not_initialized(op, request) ==
    /\ last' = Event(op, "HTTPException", FALSE, request,
                     Response(HTTP_503_SERVICE_UNAVAILABLE, NoBody, "none", {}, None))
    /\ UNCHANGED <<modelVars, handlerVars, pending, held, audio_handler>>

\* lifespan, up to its yield: the service starts with a new mock handler
lifespan_startup ==
    /\ audio_handler = "None"
    /\ audio_handler' = "MockAudioFormatHandler"
    /\ simulate_file_not_found' = FALSE
    /\ simulate_format_detection_error' = FALSE
    /\ simulate_conversion_error' = FALSE
    /\ simulate_metadata_error' = FALSE
    /\ conversion_delay' = DefaultConversionDelay
    /\ mock_file_formats' = EmptyDict
    /\ mock_metadata' = EmptyDict
    /\ mock_conversions' = EmptyDict
    /\ mock_existing_files' = {}
    /\ last' = Event("lifespan", "startup", FALSE, NoUpload, NoResult)
    /\ UNCHANGED <<modelVars, handler_SUPPORTED_FORMATS, fs_files, pending, held>>

\* the requests of the service still in flight
InFlight == {i \in 1..Len(pending) : pending[i].op \in {"/validate", "/detect",
                                                          "/metadata", "/convert"}}

\* lifespan, past its yield: the server has stopped serving
lifespan_shutdown ==
    /\ audio_handler # "None"
    /\ InFlight = {}
    /\ audio_handler' = "None"
    /\ last' = Event("lifespan", "shutdown", FALSE, NoUpload, NoResult)
    /\ UNCHANGED <<modelVars, handlerVars, pending, held>>

\* main.audio_handler = handler, with a handler of another class
inject_handler ==
    /\ InFlight = {}
    /\ audio_handler' = "AudioFormatHandler"
    /\ last' = Event("inject", "ok", FALSE, NoUpload, NoResult)
    /\ UNCHANGED <<modelVars, handlerVars, pending, held>>

\* GET /health
main_health_check ==
    /\ last' = Event("/health", "ok", FALSE, NoUpload,
                     Response(HTTP_200_OK,
                              [status |-> "healthy",
                               audio_handler |-> IF audio_handler # "None"
                                                 THEN "initialized"
                                                 ELSE "not_initialized"],
                              "none", {}, None))
    /\ UNCHANGED <<modelVars, handlerVars, pending, held, audio_handler>>

\* GET /formats
main_get_supported_formats ==
    IF get_audio_handler
    THEN not_initialized("/formats", NoUpload)
    ELSE /\ last' = Event("/formats", "ok", FALSE, NoUpload,
                          Response(HTTP_200_OK, [formats |-> handler_SUPPORTED_FORMATS],
                                   "none", {"get_supported_formats"}, None))
         /\ UNCHANGED <<modelVars, handlerVars, pending, held, audio_handler>>

\* the with block of an upload endpoint, up to await file.read(): the
\* temporary file exists and the request waits for the content
save_upload(op, request) ==
    /\ Cardinality(InFlight) < MaxInFlight
    /\ \E temp_file_path \in temp_file_names(request.filename) \ fs_files :
           /\ fs_files' = fs_files \cup {temp_file_path}
           /\ pending' = Append(pending, [op |-> op, stage |-> "read",
                                          request |-> request,
                                          temp_file_path |-> temp_file_path])
           /\ last' = Event(op, "suspended", FALSE, request,
                            Response(0, NoBody, "none", {}, temp_file_path))
    /\ UNCHANGED <<modelVars, simulate_file_not_found, simulate_format_detection_error,
                   simulate_conversion_error, simulate_metadata_error,
                   conversion_delay, mock_file_formats, mock_metadata,
                   mock_conversions, mock_existing_files, handler_SUPPORTED_FORMATS,
                   held, audio_handler>>

\* an upload endpoint called: the dependency, then the with block
upload(op, request) ==
    IF get_audio_handler
    THEN not_initialized(op, request)
    ELSE save_upload(op, request)

\* file.read() or temp_file.write(content) raises inside the with block: the
\* exception leaves the endpoint, which has not entered its try statement,
\* and the server answers 500
read_fails(i) ==
    /\ i \in InFlight
    /\ pending[i].stage = "read"
    /\ pending' = RemoveAt(pending, i)
    /\ last' = Event(pending[i].op, "OSError", TRUE, pending[i].request,
                     Response(HTTP_500_INTERNAL_SERVER_ERROR, NoBody, "none", {},
                              pending[i].temp_file_path))
    /\ UNCHANGED <<modelVars, handlerVars, held, audio_handler>>

\* the finally clause: os.unlink(temp_file_path), with the response made
respond(i, response) ==
    /\ fs_files' = fs_files \ {pending[i].temp_file_path}
    /\ pending' = RemoveAt(pending, i)
    /\ last' = Event(pending[i].op,
                     IF response.status_code = HTTP_200_OK THEN "ok" ELSE "HTTPException",
                     TRUE, pending[i].request, response)
    /\ UNCHANGED <<modelVars, simulate_file_not_found, simulate_format_detection_error,
                   simulate_conversion_error, simulate_metadata_error,
                   conversion_delay, mock_file_formats, mock_metadata,
                   mock_conversions, mock_existing_files, handler_SUPPORTED_FORMATS,
                   held, audio_handler>>

\* POST /validate, its try statement: is_valid and, when it is true, the
\* detected format, or the except clause the handler's exception reaches
main_validate_format_try(is_valid, detected_format, temp_file_path) ==
    LET ended == IF is_valid.outcome # "ok" THEN is_valid
                 ELSE IF is_valid.value THEN detected_format
                 ELSE is_valid
        called == IF is_valid.outcome = "ok" /\ is_valid.value
                  THEN {"validate_format", "detect_format"}
                  ELSE {"validate_format"}
    IN  IF ended.outcome = "ok"
        THEN Response(HTTP_200_OK,
                      [valid |-> is_valid.value,
                       format |-> IF is_valid.value THEN detected_format.value ELSE None],
                      "none", called, temp_file_path)
        ELSE IF ended.outcome \in DomainErrors
        THEN Response(HTTP_200_OK, [valid |-> FALSE, format |-> None],
                      ended.outcome, called, temp_file_path)
        ELSE Response(HTTP_500_INTERNAL_SERVER_ERROR, NoBody, ended.outcome, called,
                      temp_file_path)

\* POST /detect answering a domain error of the handler like any other exception
main_detect_format_try_all_500(detected_format, temp_file_path) ==
    IF detected_format.outcome = "ok"
    THEN Response(HTTP_200_OK, [format |-> detected_format.value],
                  "none", {"detect_format"}, temp_file_path)
    ELSE Response(HTTP_500_INTERNAL_SERVER_ERROR, NoBody, detected_format.outcome,
                  {"detect_format"}, temp_file_path)

\* POST /detect, its try statement
main_detect_format_try(detected_format, temp_file_path) ==
    IF detected_format.outcome = "ok"
    THEN Response(HTTP_200_OK, [format |-> detected_format.value],
                  "none", {"detect_format"}, temp_file_path)
    ELSE IF detected_format.outcome \in DomainErrors
    THEN Response(HTTP_400_BAD_REQUEST, NoBody, detected_format.outcome,
                  {"detect_format"}, temp_file_path)
    ELSE Response(HTTP_500_INTERNAL_SERVER_ERROR, NoBody, detected_format.outcome,
                  {"detect_format"}, temp_file_path)

\* POST /metadata, its try statement
main_get_metadata_try(metadata, temp_file_path) ==
    IF metadata.outcome = "ok"
    THEN Response(HTTP_200_OK, [metadata |-> metadata.value],
                  "none", {"get_audio_metadata"}, temp_file_path)
    ELSE IF metadata.outcome \in DomainErrors
    THEN Response(HTTP_400_BAD_REQUEST, NoBody, metadata.outcome,
                  {"get_audio_metadata"}, temp_file_path)
    ELSE Response(HTTP_500_INTERNAL_SERVER_ERROR, NoBody, metadata.outcome,
                  {"get_audio_metadata"}, temp_file_path)

\* POST /convert, its try statement once convert_if_needed has ended
main_convert_format_try(original_format, converted_path, target_format, temp_file_path) ==
    LET ended == IF original_format.outcome # "ok" THEN original_format
                 ELSE converted_path
        called == IF original_format.outcome = "ok"
                  THEN {"is_format_supported", "detect_format", "convert_if_needed"}
                  ELSE {"is_format_supported", "detect_format"}
    IN  IF ended.outcome = "ok"
        THEN Response(HTTP_200_OK,
                      [success |-> TRUE, original_format |-> original_format.value,
                       target_format |-> target_format, file_path |-> converted_path.value],
                      "none", called, temp_file_path)
        ELSE IF ended.outcome \in DomainErrors
        THEN Response(HTTP_200_OK,
                      [success |-> FALSE, original_format |-> s_unknown,
                       target_format |-> target_format, file_path |-> None],
                      ended.outcome, called, temp_file_path)
        ELSE Response(HTTP_500_INTERNAL_SERVER_ERROR, NoBody, ended.outcome, called,
                      temp_file_path)

\* POST /validate, called
main_validate_format(request) == upload("/validate", request)

\* POST /validate, resumed with the content of the upload
main_validate_format_resume(i) ==
    /\ i \in InFlight
    /\ pending[i].op = "/validate"
    /\ \E is_valid \in handler_validate_format(pending[i].temp_file_path,
                                               pending[i].request.expected_format),
          detected_format \in handler_detect_format(pending[i].temp_file_path) :
           respond(i, main_validate_format_try(is_valid, detected_format,
                                               pending[i].temp_file_path))

\* POST /detect, called
main_detect_format(request) == upload("/detect", request)

\* POST /detect, resumed with the content of the upload
main_detect_format_resume(i) ==
    /\ i \in InFlight
    /\ pending[i].op = "/detect"
    /\ \E detected_format \in handler_detect_format(pending[i].temp_file_path) :
           respond(i, main_detect_format_try(detected_format,
                                             pending[i].temp_file_path))

\* POST /metadata, called
main_get_metadata(request) == upload("/metadata", request)

\* POST /metadata, resumed with the content of the upload
main_get_metadata_resume(i) ==
    /\ i \in InFlight
    /\ pending[i].op = "/metadata"
    /\ \E metadata \in handler_get_audio_metadata(pending[i].temp_file_path) :
           respond(i, main_get_metadata_try(metadata, pending[i].temp_file_path))

\* POST /convert, called: the dependency, the target format, the with block
main_convert_format(request) ==
    IF get_audio_handler
    THEN not_initialized("/convert", request)
    ELSE IF ~is_format_supported(request.target_format)
    THEN /\ last' = Event("/convert", "HTTPException", FALSE, request,
                          Response(HTTP_400_BAD_REQUEST, NoBody, "none",
                                   {"is_format_supported"}, None))
         /\ UNCHANGED <<modelVars, handlerVars, pending, held, audio_handler>>
    ELSE save_upload("/convert", request)

\* POST /convert, resumed with the content of the upload: up to its response,
\* or to the delay of the mock's conversion
main_convert_format_resume(i) ==
    /\ i \in InFlight
    /\ pending[i].op = "/convert"
    /\ pending[i].stage = "read"
    /\ \E original_format \in handler_detect_format(pending[i].temp_file_path),
          begun \in handler_convert_if_needed(pending[i].temp_file_path,
                                              pending[i].request.target_format) :
           IF original_format.outcome = "ok" /\ begun.outcome = "convert"
              /\ conversion_delay > 0
           THEN /\ pending' = [pending EXCEPT ![i] =
                                   [op |-> "/convert", stage |-> "convert",
                                    request |-> pending[i].request,
                                    temp_file_path |-> pending[i].temp_file_path,
                                    original_format |-> original_format.value]]
                /\ last' = Event("/convert", "suspended", TRUE, pending[i].request,
                                 Response(0, NoBody, "none",
                                          {"is_format_supported", "detect_format",
                                           "convert_if_needed"},
                                          pending[i].temp_file_path))
                /\ UNCHANGED <<modelVars, handlerVars, held, audio_handler>>
           ELSE respond(i, main_convert_format_try(
                               original_format,
                               IF begun.outcome = "convert"
                               THEN Returned(conversion_output(
                                                 pending[i].temp_file_path,
                                                 pending[i].request.target_format), TRUE)
                               ELSE begun,
                               pending[i].request.target_format,
                               pending[i].temp_file_path))

\* POST /convert, resumed after the delay of the mock's conversion
main_convert_format_converted(i) ==
    /\ i \in InFlight
    /\ pending[i].op = "/convert"
    /\ pending[i].stage = "convert"
    /\ respond(i, main_convert_format_try(
                      Returned(pending[i].original_format, TRUE),
                      Returned(conversion_output(pending[i].temp_file_path,
                                                 pending[i].request.target_format), TRUE),
                      pending[i].request.target_format,
                      pending[i].temp_file_path))

\* the uploads: a file name, with an expected format for /validate and a
\* target format for /convert
ValidateUploads == { Upload(name_audio_wav, e, << >>) : e \in {None, s_mp3} }

PlainUploads == { Upload(name_audio_wav, None, << >>) }

ConvertUploads == { Upload(name_audio_wav, None, t) : t \in {s_mp3, s_xyz} }

\* the failures the mock handler of the service is told to simulate
FacadeKwargs ==
    { [simulate_file_not_found |-> TRUE],
      [simulate_format_detection_error |-> TRUE, simulate_metadata_error |-> TRUE,
       simulate_conversion_error |-> TRUE],
      [simulate_file_not_found |-> FALSE, simulate_format_detection_error |-> FALSE,
       simulate_metadata_error |-> FALSE, simulate_conversion_error |-> FALSE] }

InitFacade ==
    /\ InitModel({[processing_delay |-> 0]})
    /\ IdleHandler
    /\ InitLoop

NextFacade ==
    \/ lifespan_startup
    \/ lifespan_shutdown
    \/ inject_handler
    \/ main_health_check
    \/ main_get_supported_formats
    \/ \E request \in ValidateUploads : main_validate_format(request)
    \/ \E i \in 1..Len(pending) : main_validate_format_resume(i)
    \/ \E request \in PlainUploads : main_detect_format(request)
    \/ \E i \in 1..Len(pending) : main_detect_format_resume(i)
    \/ \E request \in PlainUploads : main_get_metadata(request)
    \/ \E i \in 1..Len(pending) : main_get_metadata_resume(i)
    \/ \E request \in ConvertUploads : main_convert_format(request)
    \/ \E i \in 1..Len(pending) : main_convert_format_resume(i)
    \/ \E i \in 1..Len(pending) : main_convert_format_converted(i)
    \/ \E i \in 1..Len(pending) : read_fails(i)
    \/ /\ audio_handler = "MockAudioFormatHandler"
       /\ \E kwargs \in FacadeKwargs : handler_configure_mock_behavior(kwargs)

SpecFacade == InitFacade /\ [][NextFacade]_vars
UploadEndpoints == {"/validate", "/detect", "/metadata", "/convert"}

\* an upload endpoint has answered a request
Answered ==
    /\ last.op \in UploadEndpoints
    /\ last.outcome # "suspended"

\* the response answers an exception the handler raised
HandlerRaised == Answered /\ last.result.raised # "none"

\* C21: when the handler raises AudioFormatError or ValidationError,
\* /validate answers 200 with valid false, /convert answers 200 with success
\* false, /detect and /metadata answer 400; when it raises anything else,
\* FileNotFoundError included, the endpoint answers 500.
C21_ErrorMapping ==
    HandlerRaised =>
        IF last.result.raised \in DomainErrors
        THEN /\ last.op = "/validate" =>
                    /\ last.result.status_code = HTTP_200_OK
                    /\ last.result.body.valid = FALSE
             /\ last.op = "/convert" =>
                    /\ last.result.status_code = HTTP_200_OK
                    /\ last.result.body.success = FALSE
             /\ last.op \in {"/detect", "/metadata"} =>
                    last.result.status_code = HTTP_400_BAD_REQUEST
        ELSE last.result.status_code = HTTP_500_INTERNAL_SERVER_ERROR

\* C21 happens: /validate has answered a ValidationError of the handler.
C21_Witness ==
    /\ HandlerRaised
    /\ last.op = "/validate"
    /\ last.result.raised = "ValidationError"

\* the temporary files of the requests in flight
TempFilesInFlight == {pending[i].temp_file_path : i \in InFlight}

\* C22: no temporary file outlives its request: whenever a request has been
\* answered, on any exit path, its temporary file is deleted, so the only
\* temporary files are those of the requests in flight; and a request that
\* called a method of the handler on a file had created its temporary file.
C22_TempFileLifecycle ==
    /\ fs_files \subseteq TempFilesInFlight
    /\ Answered => last.result.temp_file_path \notin fs_files
    /\ (Answered /\ last.result.called \ {"is_format_supported"} # {})
           => last.result.temp_file_path # None

HandlerEndpoints == UploadEndpoints \cup {"/formats"}

\* the slot changes at startup, at shutdown and when a handler is assigned to it
SlotFollowsLifespan ==
    /\ (last'.op = "lifespan" /\ last'.outcome = "startup") => audio_handler' # "None"
    /\ (last'.op = "lifespan" /\ last'.outcome = "shutdown") => audio_handler' = "None"
    /\ audio_handler' # audio_handler => last'.op \in {"lifespan", "inject"}

\* C23: the slot is empty before startup, holds a handler from startup until
\* shutdown and is empty after it; /formats and the upload endpoints answer
\* 503 exactly when the slot is empty, and then call no method of a
\* handler; /health answers 200 in every state and reports the slot as
\* initialized or not_initialized.
C23_SlotLifecycle ==
    /\ audio_handler = "None"
    /\ [][SlotFollowsLifespan]_vars
    /\ [](last.op \in HandlerEndpoints =>
            /\ last.result.status_code = HTTP_503_SERVICE_UNAVAILABLE
                   <=> audio_handler = "None"
            /\ audio_handler = "None" => last.result.called = {})
    /\ [](last.op = "/health" =>
            /\ last.result.status_code = HTTP_200_OK
            /\ last.result.body.audio_handler =
                   IF audio_handler = "None" THEN "not_initialized" ELSE "initialized")

\* C23 happens: after the service has served a request and has been shut
\* down, an upload endpoint has answered 503.
C23_Witness ==
    /\ last.op = "/validate"
    /\ last.result.status_code = HTTP_503_SERVICE_UNAVAILABLE
    /\ audio_handler = "None"
    /\ fs_files # {}

=============================================================================
